----------------------------- MODULE RendererProofs -----------------------------
(***************************************************************************)
(* Proofs about RendererSession, for any held commands and any number of   *)
(* gestures, of runActions under way and of calls that wait.               *)
(***************************************************************************)
EXTENDS RendererSession, SequenceTheorems, FiniteSetTheorems, WellFoundedInduction, TLAPS

(* What Commands may hold. *)
HeldNames == {"rewind", "fast-forward"}

UiType == [status : {"ready", "starting", "running", "paused", "stopped", "error"},
           exitOpen : BOOLEAN, exitWasRunning : BOOLEAN,
           ref : [Commands -> BOOLEAN],
           menu : BOOLEAN, pressed : SUBSET Buttons, sent : SUBSET Actions,
           runs : [1..MaxActions -> Runs]]

CallType == [op : Operations, arg : BOOLEAN \union SUBSET Actions, by : Callers]

AnswerType == [by : Callers \ {Nobody}, ok : BOOLEAN,
               status : {"none", "running", "paused", "failed"}]

(***************************************************************************)
(* A handler builds up what it does, so the invariant is stated of any     *)
(* state `u` of ProductApp, calls `cs`, answers `as` and place `l` of      *)
(* launchGame.                                                             *)
(*                                                                         *)
(* CallsAreAwaited, AnswersAreAwaited: what is asked for by somebody is    *)
(* asked for once, and it waits for just that.                             *)
(***************************************************************************)
Waits(u, i, op) ==
  \/ u.runs[i].at = op /\ op \in HeldNames
  \/ u.runs[i].at = "asked" /\ op \in {"pause", "resume", "stop", "final-stop"}

IsAwaited(u, call, l) ==
  /\ call.op \in Commands => call.arg \in BOOLEAN
  /\ call.op = "set-input" => call.arg \in SUBSET Actions
  /\ call.by = Nobody => call.op \in Commands \union {"set-input"}
  /\ call.by = Launch => call.op = "start" /\ l = "starting"
  /\ call.by \in 1..MaxActions => Waits(u, call.by, call.op)

CallsAreAwaited(u, cs, as, l) ==
  /\ cs \in Seq(CallType)
  /\ \A j \in DOMAIN cs : IsAwaited(u, cs[j], l)
  /\ \A j, k \in DOMAIN cs : cs[j].by = cs[k].by /\ cs[j].by # Nobody => j = k
  /\ \A j \in DOMAIN cs, k \in DOMAIN as : cs[j].by # as[k].by

AnswersAreAwaited(u, as, l) ==
  /\ as \in Seq(AnswerType)
  /\ \A j, k \in DOMAIN as : as[j].by = as[k].by => j = k
  /\ \A j \in DOMAIN as :
       /\ as[j].by = Launch => l = "starting"
       /\ as[j].by \in 1..MaxActions => u.runs[as[j].by].at \in HeldNames \union {"asked"}
       /\ as[j].ok => as[j].status # "failed"

RunsAreActions(u) == \A i \in 1..MaxActions : u.runs[i].at # "idle" => u.runs[i].action # "none"

(* SpeedIsKnown: the last call for a command asks for what the renderer    *)
(* believes, and without such a call the session does not hold more than   *)
(* that.                                                                   *)
SpeedIsKnown(u, cs) ==
  /\ \A c \in Commands, j \in DOMAIN cs :
       cs[j].op = c /\ (\A k \in DOMAIN cs : k > j => cs[k].op # c) => cs[j].arg = u.ref[c]
  /\ \A c \in Commands :
       /\ session.status = "running" /\ session.active[c] /\ (\A k \in DOMAIN cs : cs[k].op # c)
            => u.ref[c]
       /\ session.status = "paused" => ~session.active[c]

(* PauseIsShown: what is shown once the answers have come is a pause only  *)
(* of a session that is paused.                                            *)
Moves(u, a) == a.by = Launch \/ u.runs[a.by].at = "asked"
LastMove(u, as, j) == \A k \in DOMAIN as : k > j => ~Moves(u, as[k])
ShowsPause(a) == a.by # Launch /\ a.ok /\ a.status = "paused"

PauseIsShown(u, as) ==
  /\ u.status = "paused" /\ LastMove(u, as, 0) => session.status = "paused"
  /\ \A j \in DOMAIN as : Moves(u, as[j]) /\ LastMove(u, as, j) /\ ShowsPause(as[j])
                            => session.status = "paused"

Good(u, cs, as, l) ==
  /\ u \in UiType /\ RunsAreActions(u)
  /\ CallsAreAwaited(u, cs, as, l) /\ AnswersAreAwaited(u, as, l)
  /\ SpeedIsKnown(u, cs) /\ PauseIsShown(u, as)

SessionType == [status : {"none", "running", "paused", "failed"},
                active : [Commands -> BOOLEAN], input : SUBSET Actions]

DevicesAreTyped ==
  /\ keys \subseteq Keys /\ buttons \subseteq Buttons /\ connected \in BOOLEAN
  /\ device \in {"keyboard", "gamepad"} /\ keyboard \subseteq GameKeys
  /\ launching \in {"idle", "audio", "starting", "refresh", "configure", "retry"}
  /\ session \in SessionType

RendererInv == DevicesAreTyped /\ Good(ui, calls, answers, launching)
-----------------------------------------------------------------------------
(* The least of some numbers is one of them: an infinite descent would be  *)
(* one of subsets of a finite set.                                         *)
LEMMA MinIsMember ==
  ASSUME NEW n \in Nat, NEW S \in SUBSET (1..n), S # {}
  PROVE  Min(S) \in S
<1> DEFINE Below(x) == {y \in S : y =< x}
           T == {Below(x) : x \in S}
<1>1. IsWellFoundedOn(StrictSubsetOrdering(S), FiniteSubsetsOf(S))
  BY FS_StrictSubsetOrderingWellFounded
<1>2. IsFiniteSet(S)
  <2>1. IsFiniteSet(1..n)
    BY FS_Interval
  <2> QED
    BY <2>1, FS_Subset
<1>3. T \subseteq FiniteSubsetsOf(S) /\ T # {}
  <2>1. ASSUME NEW x \in S PROVE Below(x) \in FiniteSubsetsOf(S)
    <3>1. Below(x) \in SUBSET S
      OBVIOUS
    <3> HIDE DEF Below
    <3> QED
      BY <1>2, <3>1, FS_Subset DEF FiniteSubsetsOf
  <2> HIDE DEF Below
  <2> QED
    BY <2>1
<1> HIDE DEF T
<1>4. PICK t \in T : \A u \in T : ~(<<u, t>> \in StrictSubsetOrdering(S))
  BY <1>1, <1>3, WFMin
<1>5. PICK x \in S : t = Below(x)
  <2> HIDE DEF Below
  <2> QED
    BY <1>4 DEF T
<1>6. ASSUME NEW y \in S, y < x PROVE FALSE
  <2>1. Below(y) \in T
    <3> HIDE DEF Below
    <3> QED
      BY DEF T
  <2>2. Below(y) \subseteq t /\ x \in t /\ x \notin Below(y) /\ t \subseteq S
    <3>1. \A z \in S : z \in Nat
      OBVIOUS
    <3>2. \A z \in S : (z \in t <=> z =< x) /\ (z \in Below(y) <=> z =< y)
      BY <1>5
    <3>3. \A z \in t \union Below(y) : z \in S
      BY <1>5
    <3>4. x =< x /\ ~(x =< y) /\ \A z \in S : z =< y => z =< x
      BY <1>6, <3>1
    <3> HIDE DEF Below
    <3> QED
      BY <3>2, <3>3, <3>4
  <2> HIDE DEF Below
  <2>3. <<Below(y), t>> \in (SUBSET S) \X (SUBSET S) /\ Below(y) # t
    BY <2>2
  <2> QED
    BY <1>4, <2>1, <2>2, <2>3 DEF StrictSubsetOrdering
<1>7. \A y \in S : x =< y
  <2>1. \A z \in S : z \in Nat
    OBVIOUS
  <2> QED
    BY <1>6, <2>1
<1> QED
  BY <1>7 DEF Min

LEMMA Joins ==
  ASSUME NEW S, NEW q \in Seq(S), NEW e \in S
  PROVE  /\ Append(q, e) \in Seq(S)
         /\ Len(q) \in Nat /\ DOMAIN q = 1..Len(q) /\ DOMAIN Append(q, e) = 1..(Len(q) + 1)
         /\ Append(q, e)[Len(q) + 1] = e /\ \A j \in 1..Len(q) : Append(q, e)[j] = q[j]
<1>1. /\ Append(q, e) \in Seq(S) /\ Len(Append(q, e)) = Len(q) + 1
      /\ Append(q, e)[Len(q) + 1] = e /\ \A j \in 1..Len(q) : Append(q, e)[j] = q[j]
  BY AppendProperties
<1> QED
  BY <1>1, LenProperties

LEMMA Leaves ==
  ASSUME NEW S, NEW q \in Seq(S), q # <<>>
  PROVE  /\ Tail(q) \in Seq(S) /\ Head(q) \in S /\ Head(q) = q[1]
         /\ Len(q) \in Nat \ {0} /\ DOMAIN q = 1..Len(q) /\ DOMAIN Tail(q) = 1..(Len(q) - 1)
         /\ \A j \in 1..(Len(q) - 1) : Tail(q)[j] = q[j + 1]
<1>1. /\ Tail(q) \in Seq(S) /\ Head(q) \in S /\ Len(Tail(q)) = Len(q) - 1
      /\ \A j \in 1..Len(Tail(q)) : Tail(q)[j] = q[j + 1]
      /\ Len(q) \in Nat \ {0}
  BY HeadTailProperties, EmptySeq
<1>2. Head(q) = q[1]
  OBVIOUS
<1> QED
  BY <1>1, <1>2, LenProperties

LEMMA CallersAre ==
  /\ Callers = {Nobody, Launch} \union 1..MaxActions
  /\ Nobody # Launch /\ Nobody \notin 1..MaxActions /\ Launch \notin 1..MaxActions
  /\ MaxActions \in Nat \ {0} /\ Commands \subseteq HeldNames /\ HeldNames \subseteq {"rewind", "fast-forward"}
BY RendererAssumption DEF Callers, Nobody, Launch, HeldNames
LEMMA AnswersAre ==
  ASSUME NEW u, NEW as, NEW l, AnswersAreAwaited(u, as, l)
  PROVE  /\ Len(as) \in Nat /\ DOMAIN as = 1..Len(as)
         /\ \A j \in DOMAIN as : /\ as[j] \in AnswerType
                                /\ as[j].by # Nobody /\ as[j].by \in {Launch} \union 1..MaxActions
<1>1. as \in Seq(AnswerType)
  BY DEF AnswersAreAwaited
<1>2. Len(as) \in Nat /\ DOMAIN as = 1..Len(as)
  BY <1>1, LenProperties
<1>3. ASSUME NEW j \in DOMAIN as
      PROVE  as[j] \in AnswerType /\ as[j].by # Nobody /\ as[j].by \in {Launch} \union 1..MaxActions
  <2>1. as[j] \in AnswerType
    BY <1>1, <1>2, <1>3, ElementOfSeq
  <2> QED
    BY <2>1, CallersAre DEF AnswerType
<1> QED
  BY <1>2, <1>3
-----------------------------------------------------------------------------
(* Nothing that `b` has asked for is under way.                            *)
NothingOf(b, cs, as) ==
  (\A j \in DOMAIN cs : cs[j].by # b) /\ (\A j \in DOMAIN as : as[j].by # b)

(* Who waits for nothing has asked for nothing.                            *)
LEMMA NothingUnderWay ==
  ASSUME NEW u, NEW cs, NEW as, NEW l, Good(u, cs, as, l)
  PROVE  /\ \A i \in 1..MaxActions : u.runs[i].at \in {"idle", "listing"} => NothingOf(i, cs, as)
         /\ l # "starting" => NothingOf(Launch, cs, as)
<1>1. CallsAreAwaited(u, cs, as, l) /\ AnswersAreAwaited(u, as, l)
  BY DEF Good
<1>2. ASSUME NEW i \in 1..MaxActions, u.runs[i].at \in {"idle", "listing"}
      PROVE  NothingOf(i, cs, as)
  <2>1. ASSUME NEW j \in DOMAIN cs, cs[j].by = i PROVE FALSE
    BY <1>1, <1>2, <2>1 DEF CallsAreAwaited, IsAwaited, Waits, HeldNames
  <2>2. ASSUME NEW j \in DOMAIN as, as[j].by = i PROVE FALSE
    BY <1>1, <1>2, <2>2 DEF AnswersAreAwaited, HeldNames
  <2> QED
    BY <2>1, <2>2 DEF NothingOf
<1>3. l # "starting" => NothingOf(Launch, cs, as)
  BY <1>1 DEF CallsAreAwaited, AnswersAreAwaited, IsAwaited, NothingOf
<1> QED
  BY <1>2, <1>3

(* The renderer changes, but for what is waited for and what is known.     *)
LEMMA Altered ==
  ASSUME NEW u, NEW cs, NEW as, NEW l, Good(u, cs, as, l),
         NEW v \in UiType, NEW m, RunsAreActions(v), v.ref = u.ref,
         v.status = u.status \/ v.status # "paused",
         \A i \in 1..MaxActions : v.runs[i].at = u.runs[i].at \/ NothingOf(i, cs, as),
         m = l \/ NothingOf(Launch, cs, as)
  PROVE  Good(v, cs, as, m)
<1>1. /\ CallsAreAwaited(u, cs, as, l) /\ AnswersAreAwaited(u, as, l)
      /\ SpeedIsKnown(u, cs) /\ PauseIsShown(u, as)
  BY DEF Good
<1>2. CallsAreAwaited(v, cs, as, m)
  <2>1. ASSUME NEW j \in DOMAIN cs PROVE IsAwaited(v, cs[j], m)
    BY <1>1 DEF CallsAreAwaited, IsAwaited, Waits, NothingOf
  <2> QED
    BY <1>1, <2>1 DEF CallsAreAwaited
<1>3. AnswersAreAwaited(v, as, m)
  BY <1>1 DEF AnswersAreAwaited, NothingOf
<1>4. SpeedIsKnown(v, cs)
  BY <1>1 DEF SpeedIsKnown
<1>5. \A j \in DOMAIN as : Moves(v, as[j]) = Moves(u, as[j])
  <2> SUFFICES ASSUME NEW j \in DOMAIN as, as[j].by # Launch
               PROVE  v.runs[as[j].by].at = u.runs[as[j].by].at
    BY DEF Moves
  <2>1. as[j].by \in 1..MaxActions
    BY <1>1, AnswersAre
  <2> QED
    BY <2>1 DEF NothingOf
<1>6. PauseIsShown(v, as)
  BY <1>1, <1>5 DEF PauseIsShown, LastMove
<1> QED
  BY <1>2, <1>3, <1>4, <1>6 DEF Good

(* A call joins those under way.                                           *)
LEMMA Added ==
  ASSUME NEW u, NEW cs, NEW as, NEW l, Good(u, cs, as, l),
         NEW v \in UiType, RunsAreActions(v), v.status = u.status,
         NEW r \in CallType, IsAwaited(v, r, l), r.by # Nobody => NothingOf(r.by, cs, as),
         \A i \in 1..MaxActions : i # r.by => v.runs[i].at = u.runs[i].at,
         \A c \in Commands : v.ref[c] = IF r.op = c THEN r.arg ELSE u.ref[c]
  PROVE  Good(v, Append(cs, r), as, l)
<1> DEFINE n == Len(cs)
           new == Append(cs, r)
<1>1. /\ CallsAreAwaited(u, cs, as, l) /\ AnswersAreAwaited(u, as, l)
      /\ SpeedIsKnown(u, cs) /\ PauseIsShown(u, as)
  BY DEF Good
<1>2. /\ new \in Seq(CallType) /\ n \in Nat /\ DOMAIN cs = 1..n /\ DOMAIN new = 1..(n + 1)
      /\ new[n + 1] = r /\ \A j \in 1..n : new[j] = cs[j]
  BY <1>1, Joins DEF CallsAreAwaited
<1>3. /\ \A j \in 1..n : cs[j].by # r.by \/ r.by = Nobody
      /\ \A j \in DOMAIN as : as[j].by # r.by
  <2>1. \A j \in DOMAIN as : as[j].by # Nobody
    BY <1>1, AnswersAre, ZenonT(30)
  <2> QED
    BY <1>2, <2>1 DEF NothingOf
<1> HIDE DEF n, new
<1>4. CallsAreAwaited(v, new, as, l)
  <2>1. ASSUME NEW j \in 1..n PROVE IsAwaited(v, cs[j], l)
    <3>1. IsAwaited(u, cs[j], l)
      BY <1>1, <1>2 DEF CallsAreAwaited
    <3> QED
      BY <1>3, <3>1, CallersAre DEF IsAwaited, Waits
  <2>2. \A j \in 1..(n + 1) : IsAwaited(v, new[j], l)
    <3>1. \A j \in 1..(n + 1) : j = n + 1 \/ j \in 1..n
      BY <1>2
    <3> QED
      BY <1>2, <2>1, <3>1
  <2>3. ASSUME NEW j \in 1..(n + 1), NEW k \in 1..(n + 1), new[j].by = new[k].by, new[j].by # Nobody
        PROVE  j = k
    <3>1. CASE j \in 1..n /\ k \in 1..n
      BY <1>1, <1>2, <2>3, <3>1 DEF CallsAreAwaited
    <3>2. CASE j = n + 1 \/ k = n + 1
      <4>1. (j \in 1..n \/ j = n + 1) /\ (k \in 1..n \/ k = n + 1)
        BY <1>2
      <4> QED
        BY <1>2, <1>3, <2>3, <3>2, <4>1
    <3> QED
      BY <1>2, <3>1, <3>2
  <2>4. \A j \in 1..(n + 1), k \in DOMAIN as : new[j].by # as[k].by
    <3> SUFFICES ASSUME NEW j \in 1..(n + 1), NEW k \in DOMAIN as
                 PROVE  new[j].by # as[k].by
      OBVIOUS
    <3>1. CASE j = n + 1
      BY <1>2, <1>3, <3>1
    <3>2. CASE j # n + 1
      <4>1. j \in 1..n
        BY <1>2, <3>2
      <4>2. j \in DOMAIN cs /\ new[j] = cs[j]
        BY <1>2, <4>1
      <4>3. \A x \in DOMAIN cs, y \in DOMAIN as : cs[x].by # as[y].by
        BY <1>1 DEF CallsAreAwaited
      <4> QED
        BY <4>2, <4>3
    <3> QED
      BY <3>1, <3>2
  <2> QED
    BY <1>2, <2>2, <2>3, <2>4 DEF CallsAreAwaited
<1>5. AnswersAreAwaited(v, as, l)
  BY <1>1, <1>3 DEF AnswersAreAwaited
<1>6. SpeedIsKnown(v, new)
  <2>1. ASSUME NEW c \in Commands, NEW j \in DOMAIN new, new[j].op = c,
               \A k \in DOMAIN new : k > j => new[k].op # c
        PROVE  new[j].arg = v.ref[c]
    <3>1. CASE j = n + 1
      BY <1>2, <2>1, <3>1
    <3>2. CASE j # n + 1
      <4>1. j \in 1..n /\ n + 1 > j /\ r.op # c
        BY <1>2, <2>1, <3>2
      <4>2. \A k \in 1..n : k > j => cs[k].op # c
        BY <1>2, <2>1
      <4> QED
        BY <1>1, <1>2, <2>1, <4>1, <4>2 DEF SpeedIsKnown
    <3> QED
      BY <3>1, <3>2
  <2>2. ASSUME NEW c \in Commands, session.status = "running", session.active[c],
               \A k \in DOMAIN new : new[k].op # c
        PROVE  v.ref[c]
    <3>1. r.op # c /\ \A k \in 1..n : cs[k].op # c
      <4>1. n + 1 \in DOMAIN new /\ \A k \in 1..n : k \in DOMAIN new
        BY <1>2
      <4> QED
        BY <1>2, <2>2, <4>1
    <3> QED
      BY <1>1, <1>2, <2>2, <3>1 DEF SpeedIsKnown
  <2> QED
    BY <1>1, <2>1, <2>2 DEF SpeedIsKnown
<1>7. PauseIsShown(v, as)
  <2>1. \A j \in DOMAIN as : Moves(v, as[j]) = Moves(u, as[j])
    <3> SUFFICES ASSUME NEW j \in DOMAIN as, as[j].by # Launch
                 PROVE  v.runs[as[j].by].at = u.runs[as[j].by].at
      BY DEF Moves
    <3>1. as[j].by \in 1..MaxActions
      BY <1>1, AnswersAre
    <3> QED
      BY <1>3, <3>1
  <2> QED
    BY <1>1, <2>1 DEF PauseIsShown, LastMove
<1> QED
  BY <1>4, <1>5, <1>6, <1>7 DEF Good, new
-----------------------------------------------------------------------------
(* Effects.  What a handler has done so far is sound if the renderer would *)
(* be in order should it end here.                                         *)
EffectType == [ui : UiType, made : Seq(CallType)]

Sound(e, as, l) ==
  e \in EffectType /\ calls \in Seq(CallType) /\ Good(e.ui, calls \o e.made, as, l)

LEMMA UiFields ==
  ASSUME NEW u \in UiType
  PROVE  /\ \A c \in Commands, on \in BOOLEAN :
              /\ [u EXCEPT !.ref[c] = on] \in UiType
              /\ \A d \in Commands : [u EXCEPT !.ref[c] = on].ref[d] = IF c = d THEN on ELSE u.ref[d]
         /\ \A i \in 1..MaxActions, r \in Runs :
              /\ [u EXCEPT !.runs[i] = r] \in UiType
              /\ \A k \in 1..MaxActions : [u EXCEPT !.runs[i] = r].runs[k] = IF k = i THEN r ELSE u.runs[k]
         /\ u.runs \in [1..MaxActions -> Runs] /\ u.ref \in [Commands -> BOOLEAN]
<1>1. u.runs \in [1..MaxActions -> Runs] /\ u.ref \in [Commands -> BOOLEAN]
  BY DEF UiType
<1>2. ASSUME NEW c \in Commands, NEW on \in BOOLEAN
      PROVE  /\ [u EXCEPT !.ref[c] = on] \in UiType
             /\ \A d \in Commands : [u EXCEPT !.ref[c] = on].ref[d] = IF c = d THEN on ELSE u.ref[d]
  <2> DEFINE f == [u.ref EXCEPT ![c] = on]
  <2>1. f \in [Commands -> BOOLEAN] /\ \A d \in Commands : f[d] = IF c = d THEN on ELSE u.ref[d]
    BY <1>1
  <2>2. [u EXCEPT !.ref[c] = on] = [u EXCEPT !.ref = f]
    BY DEF UiType
  <2> HIDE DEF f
  <2> QED
    BY <2>1, <2>2 DEF UiType
<1>3. ASSUME NEW i \in 1..MaxActions, NEW r \in Runs
      PROVE  /\ [u EXCEPT !.runs[i] = r] \in UiType
             /\ \A k \in 1..MaxActions : [u EXCEPT !.runs[i] = r].runs[k] = IF k = i THEN r ELSE u.runs[k]
  <2> DEFINE f == [u.runs EXCEPT ![i] = r]
  <2>1. f \in [1..MaxActions -> Runs] /\ \A k \in 1..MaxActions : f[k] = IF k = i THEN r ELSE u.runs[k]
    BY <1>1
  <2>2. [u EXCEPT !.runs[i] = r] = [u EXCEPT !.runs = f]
    BY DEF UiType
  <2> HIDE DEF f
  <2> QED
    BY <2>1, <2>2 DEF UiType
<1> QED
  BY <1>1, <1>2, <1>3

LEMMA CallJoins ==
  ASSUME NEW m \in Seq(CallType), NEW r \in CallType, calls \in Seq(CallType)
  PROVE  Append(calls \o m, r) = calls \o Append(m, r)
<1>1. PICK t \in Seq(CallType) : t = <<r>>
  <2>1. <<r>> \in Seq(CallType)
    OBVIOUS
  <2> QED
    BY <2>1, Zenon
<1>2. calls \o m \in Seq(CallType)
  BY ConcatProperties
<1>3. Append(calls \o m, r) = (calls \o m) \o t
  BY <1>1, <1>2, AppendIsConcat
<1>4. Append(m, r) = m \o t
  BY <1>1, AppendIsConcat
<1>5. (calls \o m) \o t = calls \o (m \o t)
  BY ConcatAssociative
<1> QED
  BY <1>3, <1>4, <1>5

(* A handler makes a call.                                                 *)
LEMMA Calling ==
  ASSUME NEW e, NEW as, NEW l, Sound(e, as, l),
         NEW v \in UiType, RunsAreActions(v), v.status = e.ui.status,
         NEW r \in CallType, IsAwaited(v, r, l),
         r.by # Nobody => NothingOf(r.by, calls \o e.made, as),
         \A i \in 1..MaxActions : i # r.by => v.runs[i].at = e.ui.runs[i].at,
         \A c \in Commands : v.ref[c] = IF r.op = c THEN r.arg ELSE e.ui.ref[c]
  PROVE  Sound([ui |-> v, made |-> Append(e.made, r)], as, l)
<1> DEFINE cs == calls \o e.made
<1>1. e.made \in Seq(CallType) /\ calls \in Seq(CallType) /\ Good(e.ui, cs, as, l)
  BY DEF Sound, EffectType
<1>2. Good(v, Append(cs, r), as, l)
  <2>1. r.by # Nobody => NothingOf(r.by, cs, as)
    OBVIOUS
  <2> HIDE DEF cs
  <2>2. e.ui.status = v.status /\ r.by \in Callers
    BY DEF CallType
  <2> QED
    BY <1>1, <2>1, Added
<1>3. Append(e.made, r) \in Seq(CallType)
  BY <1>1, Joins
<1>4. Append(cs, r) = calls \o Append(e.made, r)
  BY <1>1, CallJoins
<1> QED
  BY <1>1, <1>2, <1>3, <1>4 DEF Sound, EffectType

LEMMA CallIs ==
  ASSUME NEW e \in EffectType, NEW op, NEW arg, NEW by
  PROVE  Call(e, op, arg, by) = [ui |-> e.ui, made |-> Append(e.made, [op |-> op, arg |-> arg, by |-> by])]
<1> DEFINE m == Append(e.made, [op |-> op, arg |-> arg, by |-> by])
<1>1. Call(e, op, arg, by) = [e EXCEPT !.made = m]
  BY DEF Call
<1> HIDE DEF m
<1>2. [e EXCEPT !.made = m] = [ui |-> e.ui, made |-> m]
  BY DEF EffectType
<1> QED
  BY <1>1, <1>2 DEF m

LEMMA SetCommandIs ==
  ASSUME NEW e \in EffectType, NEW c \in Commands, NEW on \in BOOLEAN, NEW by
  PROVE  SetCommand(e, c, on, by) =
           [ui |-> [e.ui EXCEPT !.ref[c] = on],
            made |-> Append(e.made, [op |-> c, arg |-> on, by |-> by])]
<1> DEFINE v == [e.ui EXCEPT !.ref[c] = on]
<1>1. v \in UiType
  BY UiFields DEF EffectType
<1>2. [e EXCEPT !.ui.ref[c] = on] = [ui |-> v, made |-> e.made]
  BY DEF EffectType
<1> HIDE DEF v
<1>3. [ui |-> v, made |-> e.made] \in EffectType
  BY <1>1 DEF EffectType
<1>4. SetCommand(e, c, on, by) = Call([ui |-> v, made |-> e.made], c, on, by)
  BY <1>2 DEF SetCommand
<1>5. Call([ui |-> v, made |-> e.made], c, on, by)
        = [ui |-> v, made |-> Append(e.made, [op |-> c, arg |-> on, by |-> by])]
  <2> DEFINE f == [ui |-> v, made |-> e.made]
  <2>1. f.ui = v /\ f.made = e.made /\ f \in EffectType
    BY <1>3
  <2> HIDE DEF f
  <2>2. Call(f, c, on, by) = [ui |-> f.ui, made |-> Append(f.made, [op |-> c, arg |-> on, by |-> by])]
    BY <2>1, CallIs
  <2> QED
    BY <2>1, <2>2 DEF f
<1> QED
  BY <1>4, <1>5 DEF v

(* The state changes, and no call is made.                                 *)
LEMMA Turned ==
  ASSUME NEW e, NEW as, NEW l, Sound(e, as, l),
         NEW v \in UiType, RunsAreActions(v), v.ref = e.ui.ref,
         v.status = e.ui.status \/ v.status # "paused",
         \A i \in 1..MaxActions : v.runs[i].at = e.ui.runs[i].at
  PROVE  Sound([ui |-> v, made |-> e.made], as, l)
<1>1. e.made \in Seq(CallType) /\ Good(e.ui, calls \o e.made, as, l) /\ calls \in Seq(CallType)
  BY DEF Sound, EffectType
<1>2. Good(v, calls \o e.made, as, l)
  BY <1>1, Altered
<1> QED
  BY <1>1, <1>2 DEF Sound, EffectType

(* A command that nobody waits for.                                        *)
LEMMA Commanded ==
  ASSUME NEW e, NEW as, NEW l, Sound(e, as, l), NEW c \in Commands, NEW on \in BOOLEAN
  PROVE  /\ Sound(SetCommand(e, c, on, Nobody), as, l)
         /\ SetCommand(e, c, on, Nobody).ui.runs = e.ui.runs
<1> DEFINE v == [e.ui EXCEPT !.ref[c] = on]
           r == [op |-> c, arg |-> on, by |-> Nobody]
<1>1. e \in EffectType /\ e.ui \in UiType /\ RunsAreActions(e.ui)
  BY DEF Sound, EffectType, Good
<1>2. v \in UiType /\ \A d \in Commands : v.ref[d] = IF c = d THEN on ELSE e.ui.ref[d]
  BY <1>1, UiFields
<1>3. v.runs = e.ui.runs /\ v.status = e.ui.status
  BY <1>1 DEF UiType
<1>4. r \in CallType /\ IsAwaited(v, r, l)
  BY CallersAre DEF CallType, IsAwaited, Operations, HeldNames
<1>5. r.op = c /\ r.arg = on /\ r.by = Nobody
  OBVIOUS
<1> HIDE DEF v, r
<1>6. RunsAreActions(v)
  BY <1>1, <1>3 DEF RunsAreActions
<1>7. Sound([ui |-> v, made |-> Append(e.made, r)], as, l)
  BY <1>2, <1>3, <1>4, <1>5, <1>6, Calling
<1>8. SetCommand(e, c, on, Nobody) = [ui |-> v, made |-> Append(e.made, r)]
  BY <1>1, SetCommandIs DEF v, r
<1> QED
  BY <1>3, <1>7, <1>8
-----------------------------------------------------------------------------
(* A runAction comes to another await. *)
ComesTo(u, i, at) == [u EXCEPT !.runs[i].at = at]

LEMMA UiWaits ==
  ASSUME NEW u \in UiType, NEW i \in 1..MaxActions, NEW at \in HeldNames \union {"idle", "asked", "listing"}
  PROVE  LET w == ComesTo(u, i, at)
         IN /\ w \in UiType /\ w.ref = u.ref /\ w.status = u.status
            /\ w.runs[i].at = at /\ w.runs[i].action = u.runs[i].action
            /\ \A k \in 1..MaxActions : k # i => w.runs[k] = u.runs[k]
<1> DEFINE w == ComesTo(u, i, at)
           r == [u.runs[i] EXCEPT !.at = at]
<1>1. u.runs \in [1..MaxActions -> Runs] /\ u.runs[i] \in Runs
  BY UiFields
<1>2. r \in Runs /\ r.at = at /\ r.action = u.runs[i].action
  BY <1>1 DEF Runs, HeldNames
<1>3. w = [u EXCEPT !.runs[i] = r]
  BY <1>1 DEF UiType, ComesTo
<1> HIDE DEF r
<1>4. w \in UiType /\ \A k \in 1..MaxActions : w.runs[k] = IF k = i THEN r ELSE u.runs[k]
  <2>1. /\ [u EXCEPT !.runs[i] = r] \in UiType
        /\ \A k \in 1..MaxActions : [u EXCEPT !.runs[i] = r].runs[k] = IF k = i THEN r ELSE u.runs[k]
    BY <1>2, UiFields
  <2> HIDE DEF w
  <2> QED
    BY <1>3, <2>1
<1>5. w.ref = u.ref /\ w.status = u.status
  BY <1>3 DEF UiType
<1> QED
  BY <1>2, <1>4, <1>5

(* A runAction goes on: it releases a command, or asks for its action.     *)
LEMMA Proceeds ==
  ASSUME NEW e, NEW as, NEW l, Sound(e, as, l), NEW i \in 1..MaxActions,
         e.ui.runs[i].action # "none", NothingOf(i, calls \o e.made, as), NEW from \in 1..3
  PROVE  /\ Sound(Proceed(e, i, from), as, l)
         /\ \A k \in 1..MaxActions : k # i => Proceed(e, i, from).ui.runs[k] = e.ui.runs[k]
<1> DEFINE on == {k \in from..2 : Order[k] \in Commands /\ e.ui.ref[Order[k]]}
<1>1. e \in EffectType /\ e.ui \in UiType /\ e.made \in Seq(CallType) /\ RunsAreActions(e.ui)
  BY DEF Sound, EffectType, Good
<1>2. i \in Callers \ {Nobody, Launch}
  BY CallersAre
<1>3. e.ui.runs[i].action \in {"pause", "resume", "stop"}
  <2>1. e.ui.runs[i] \in Runs
    BY <1>1, UiFields
  <2> QED
    BY <2>1 DEF Runs
<1>4. CASE e.ui.runs[i].action # "resume" /\ on # {}
  <2> DEFINE c == Order[Min(on)]
             w == [e.ui EXCEPT !.runs[i].at = c]
             v == [w EXCEPT !.ref[c] = FALSE]
             r == [op |-> c, arg |-> FALSE, by |-> i]
             f == [ui |-> w, made |-> e.made]
  <2>1. Proceed(e, i, from) = SetCommand([e EXCEPT !.ui.runs[i].at = c], c, FALSE, i)
    BY <1>4 DEF Proceed
  <2>2. c \in Commands /\ c \in HeldNames
    <3>1. on \in SUBSET (1..2) /\ 2 \in Nat
      OBVIOUS
    <3> HIDE DEF on
    <3>2. Min(on) \in on
      BY <1>4, <3>1, MinIsMember
    <3> QED
      BY <3>2, CallersAre DEF on
  <2>3. [e EXCEPT !.ui.runs[i].at = c] = f
    BY <1>1 DEF EffectType
  <2> HIDE DEF c
  <2>4. /\ w \in UiType /\ w.ref = e.ui.ref /\ w.status = e.ui.status
        /\ w.runs[i].at = c /\ w.runs[i].action = e.ui.runs[i].action
        /\ \A k \in 1..MaxActions : k # i => w.runs[k] = e.ui.runs[k]
    <3>1. w = ComesTo(e.ui, i, c)
      BY DEF ComesTo
    <3> HIDE DEF w
    <3> QED
      BY <1>1, <2>2, <3>1, UiWaits
  <2> HIDE DEF w
  <2>5. /\ v \in UiType /\ v.runs = w.runs /\ v.status = w.status
        /\ \A d \in Commands : v.ref[d] = IF c = d THEN FALSE ELSE e.ui.ref[d]
    <3>1. v \in UiType /\ \A d \in Commands : v.ref[d] = IF c = d THEN FALSE ELSE w.ref[d]
      BY <2>2, <2>4, UiFields
    <3>2. v.runs = w.runs /\ v.status = w.status
      BY <2>4 DEF UiType
    <3> QED
      BY <2>4, <3>1, <3>2
  <2>6. RunsAreActions(v)
    BY <1>1, <2>4, <2>5 DEF RunsAreActions
  <2>7. /\ r \in CallType /\ r.op = c /\ r.arg = FALSE /\ r.by = i
        /\ IsAwaited(v, r, l)
    <3>1. r \in CallType /\ r.op = c /\ r.arg = FALSE /\ r.by = i
      BY <1>2, <2>2 DEF CallType, Operations
    <3>2. c # "set-input"
      BY <2>2 DEF HeldNames
    <3>3. Waits(v, i, c)
      BY <2>2, <2>4, <2>5 DEF Waits
    <3> HIDE DEF r
    <3> QED
      BY <1>2, <2>2, <3>1, <3>2, <3>3 DEF IsAwaited
  <2> HIDE DEF v, r
  <2>8. Sound([ui |-> v, made |-> Append(e.made, r)], as, l)
    BY <1>2, <2>4, <2>5, <2>6, <2>7, Calling
  <2>9. Proceed(e, i, from) = [ui |-> v, made |-> Append(e.made, r)]
    <3>1. f \in EffectType /\ f.ui = w /\ f.made = e.made
      BY <1>1, <2>4 DEF EffectType
    <3> HIDE DEF f
    <3>2. SetCommand(f, c, FALSE, i)
            = [ui |-> [f.ui EXCEPT !.ref[c] = FALSE],
               made |-> Append(f.made, [op |-> c, arg |-> FALSE, by |-> i])]
      BY <2>2, <3>1, SetCommandIs
    <3> QED
      BY <2>1, <2>3, <3>1, <3>2 DEF v, r
  <2> QED
    BY <2>4, <2>5, <2>8, <2>9
<1>5. CASE ~(e.ui.runs[i].action # "resume" /\ on # {})
  <2> DEFINE v == [e.ui EXCEPT !.runs[i].at = "asked"]
             op == e.ui.runs[i].action
             r == [op |-> op, arg |-> TRUE, by |-> i]
             f == [ui |-> v, made |-> e.made]
  <2>1. Proceed(e, i, from) = Call([e EXCEPT !.ui.runs[i].at = "asked"], op, TRUE, i)
    BY <1>5 DEF Proceed
  <2>2. [e EXCEPT !.ui.runs[i].at = "asked"] = f
    BY <1>1 DEF EffectType
  <2>3. /\ v \in UiType /\ v.ref = e.ui.ref /\ v.status = e.ui.status
        /\ v.runs[i].at = "asked" /\ v.runs[i].action = e.ui.runs[i].action
        /\ \A k \in 1..MaxActions : k # i => v.runs[k] = e.ui.runs[k]
    <3>1. "asked" \in HeldNames \union {"idle", "asked", "listing"}
      OBVIOUS
    <3>2. v = ComesTo(e.ui, i, "asked")
      BY DEF ComesTo
    <3> HIDE DEF v
    <3> QED
      BY <1>1, <3>1, <3>2, UiWaits
  <2> HIDE DEF v
  <2>4. RunsAreActions(v)
    BY <1>1, <1>3, <2>3 DEF RunsAreActions
  <2> HIDE DEF op
  <2>5. op \in {"pause", "resume", "stop"} /\ op \notin Commands
    BY <1>3, CallersAre DEF op
  <2>6. /\ r \in CallType /\ r.op = op /\ r.by = i
        /\ IsAwaited(v, r, l)
    <3>1. r \in CallType /\ r.op = op /\ r.by = i
      BY <1>2, <2>5 DEF CallType, Operations
    <3>2. Waits(v, i, op)
      BY <2>3, <2>5 DEF Waits
    <3> HIDE DEF r
    <3> QED
      BY <1>2, <2>5, <3>1, <3>2 DEF IsAwaited
  <2>7. \A d \in Commands : r.op # d
    BY <2>5, <2>6
  <2> HIDE DEF r
  <2>8. Sound([ui |-> v, made |-> Append(e.made, r)], as, l)
    BY <1>2, <2>3, <2>4, <2>6, <2>7, Calling
  <2>9. Proceed(e, i, from) = [ui |-> v, made |-> Append(e.made, r)]
    <3>1. f \in EffectType /\ f.ui = v /\ f.made = e.made
      BY <1>1, <2>3 DEF EffectType
    <3> HIDE DEF f
    <3>2. Call(f, op, TRUE, i) = [ui |-> f.ui, made |-> Append(f.made, [op |-> op, arg |-> TRUE, by |-> i])]
      BY <3>1, CallIs
    <3> QED
      BY <2>1, <2>2, <3>1, <3>2 DEF r
  <2> QED
    BY <2>3, <2>8, <2>9
<1> QED
  BY <1>4, <1>5
-----------------------------------------------------------------------------
(* A runAction begins: in a place that is free, and it takes only that.    *)
LEMMA RunActs ==
  ASSUME NEW e, NEW as, NEW l, Sound(e, as, l), Free(e.ui) # {},
         NEW action \in {"pause", "resume", "stop"}, NEW exit \in BOOLEAN
  PROVE  /\ Sound(RunAction(e, action, exit), as, l)
         /\ \E i \in 1..MaxActions : Free(e.ui) \ {i} \subseteq Free(RunAction(e, action, exit).ui)
<1> DEFINE i == Min(Free(e.ui))
           r == [action |-> action, at |-> "idle", exit |-> exit]
           v == [e.ui EXCEPT !.runs[i] = r]
           f == [ui |-> v, made |-> e.made]
<1>1. e \in EffectType /\ e.ui \in UiType /\ RunsAreActions(e.ui)
  BY DEF Sound, EffectType, Good
<1>2. i \in 1..MaxActions /\ i \in Free(e.ui)
  <2>1. Free(e.ui) \in SUBSET (1..MaxActions)
    BY DEF Free
  <2>2. i \in Free(e.ui)
    BY <2>1, MinIsMember, CallersAre
  <2> QED
    BY <2>1, <2>2
<1>3. e.ui.runs[i].at = "idle"
  BY <1>2 DEF Free
<1> HIDE DEF i
<1>4. r \in Runs /\ r.at = "idle" /\ r.action = action
  BY DEF Runs
<1>5. [e EXCEPT !.ui.runs[i] = r] = f
  BY <1>1 DEF EffectType
<1> HIDE DEF r
<1>6. /\ v \in UiType /\ v.ref = e.ui.ref /\ v.status = e.ui.status
      /\ \A k \in 1..MaxActions : v.runs[k] = IF k = i THEN r ELSE e.ui.runs[k]
  <2>1. v \in UiType /\ \A k \in 1..MaxActions : v.runs[k] = IF k = i THEN r ELSE e.ui.runs[k]
    BY <1>1, <1>2, <1>4, UiFields
  <2>2. v.ref = e.ui.ref /\ v.status = e.ui.status
    BY <1>1 DEF UiType
  <2> QED
    BY <2>1, <2>2
<1> HIDE DEF v
<1>7. Sound(f, as, l) /\ f.ui = v
  <2>1. RunsAreActions(v)
    BY <1>1, <1>4, <1>6 DEF RunsAreActions
  <2>2. \A k \in 1..MaxActions : v.runs[k].at = e.ui.runs[k].at
    BY <1>3, <1>4, <1>6
  <2> QED
    BY <1>6, <2>1, <2>2, Turned
<1> HIDE DEF f
<1>8. NothingOf(i, calls \o f.made, as) /\ f.ui.runs[i].action # "none"
  <2>1. Good(f.ui, calls \o f.made, as, l)
    BY <1>7 DEF Sound
  <2>2. f.ui.runs[i].at = "idle" /\ f.ui.runs[i].action = action
    BY <1>2, <1>4, <1>6, <1>7
  <2> QED
    BY <1>2, <2>1, <2>2, NothingUnderWay
<1>9. /\ Sound(Proceed(f, i, 1), as, l)
      /\ \A k \in 1..MaxActions : k # i => Proceed(f, i, 1).ui.runs[k] = f.ui.runs[k]
  <2>1. 1 \in 1..3
    OBVIOUS
  <2> QED
    BY <1>2, <1>7, <1>8, <2>1, Proceeds
<1>10. RunAction(e, action, exit) = Proceed(f, i, 1)
  BY <1>5 DEF RunAction, i, r
<1>11. Free(e.ui) \ {i} \subseteq Free(RunAction(e, action, exit).ui)
  BY <1>6, <1>7, <1>9, <1>10 DEF Free
<1> QED
  BY <1>2, <1>9, <1>10, <1>11

(* The flags of the dialog.                                                *)
LEMMA Flagged ==
  ASSUME NEW e, NEW as, NEW l, Sound(e, as, l), NEW b \in BOOLEAN
  PROVE  /\ Sound([e EXCEPT !.ui.exitOpen = b], as, l)
         /\ Free([e EXCEPT !.ui.exitOpen = b].ui) = Free(e.ui)
         /\ Sound([e EXCEPT !.ui.exitWasRunning = b], as, l)
         /\ Free([e EXCEPT !.ui.exitWasRunning = b].ui) = Free(e.ui)
<1>1. e \in EffectType /\ e.ui \in UiType /\ RunsAreActions(e.ui)
  BY DEF Sound, EffectType, Good
<1>2. ASSUME NEW v \in UiType, v.ref = e.ui.ref, v.status = e.ui.status, v.runs = e.ui.runs
      PROVE  /\ Sound([ui |-> v, made |-> e.made], as, l)
             /\ Free([ui |-> v, made |-> e.made].ui) = Free(e.ui)
  <2>1. RunsAreActions(v)
    BY <1>1, <1>2 DEF RunsAreActions
  <2> QED
    BY <1>2, <2>1, Turned DEF Free
<1>3. /\ Sound([e EXCEPT !.ui.exitOpen = b], as, l)
      /\ Free([e EXCEPT !.ui.exitOpen = b].ui) = Free(e.ui)
  <2> DEFINE v == [e.ui EXCEPT !.exitOpen = b]
  <2>1. v \in UiType /\ v.ref = e.ui.ref /\ v.status = e.ui.status /\ v.runs = e.ui.runs
    BY <1>1 DEF UiType
  <2>2. [e EXCEPT !.ui.exitOpen = b] = [ui |-> v, made |-> e.made]
    BY <1>1 DEF EffectType
  <2> HIDE DEF v
  <2> QED
    BY <1>2, <2>1, <2>2
<1>4. /\ Sound([e EXCEPT !.ui.exitWasRunning = b], as, l)
      /\ Free([e EXCEPT !.ui.exitWasRunning = b].ui) = Free(e.ui)
  <2> DEFINE v == [e.ui EXCEPT !.exitWasRunning = b]
  <2>1. v \in UiType /\ v.ref = e.ui.ref /\ v.status = e.ui.status /\ v.runs = e.ui.runs
    BY <1>1 DEF UiType
  <2>2. [e EXCEPT !.ui.exitWasRunning = b] = [ui |-> v, made |-> e.made]
    BY <1>1 DEF EffectType
  <2> HIDE DEF v
  <2> QED
    BY <1>2, <2>1, <2>2
<1> QED
  BY <1>3, <1>4

LEMMA Toggles ==
  ASSUME NEW e, NEW as, NEW l, Sound(e, as, l), Free(e.ui) # {}
  PROVE  /\ Sound(Toggle(e), as, l)
         /\ \E i \in 1..MaxActions : Free(e.ui) \ {i} \subseteq Free(Toggle(e).ui)
<1> DEFINE action == IF e.ui.status = "paused" THEN "resume" ELSE "pause"
<1>1. action \in {"pause", "resume", "stop"}
  OBVIOUS
<1>2. Toggle(e) = RunAction(e, action, FALSE)
  BY DEF Toggle
<1> HIDE DEF action
<1> QED
  BY <1>1, <1>2, RunActs

(* The dialog that asks whether to leave the game.                         *)
LEMMA Dialogs ==
  ASSUME NEW e, NEW as, NEW l, Sound(e, as, l), Free(e.ui) # {}
  PROVE  /\ Sound(RequestSessionExit(e), as, l)
         /\ Sound(CancelSessionExit(e), as, l)
         /\ Sound(ConfirmSessionExit(e), as, l)
<1>1. Sound(RequestSessionExit(e), as, l)
  <2> DEFINE b == (e.ui.status = "running")
             f == [e EXCEPT !.ui.exitWasRunning = b]
  <2>1. b \in BOOLEAN
    OBVIOUS
  <2>2. RequestSessionExit(e) = IF b THEN RunAction(f, "pause", TRUE) ELSE [f EXCEPT !.ui.exitOpen = TRUE]
    BY DEF RequestSessionExit
  <2> HIDE DEF b
  <2>3. Sound(f, as, l) /\ Free(f.ui) # {}
    BY <2>1, Flagged
  <2> HIDE DEF f
  <2>4. Sound(RunAction(f, "pause", TRUE), as, l) /\ Sound([f EXCEPT !.ui.exitOpen = TRUE], as, l)
    BY <2>3, RunActs, Flagged
  <2> QED
    BY <2>2, <2>4
<1>2. Sound([e EXCEPT !.ui.exitOpen = FALSE], as, l) /\ Free([e EXCEPT !.ui.exitOpen = FALSE].ui) # {}
  BY Flagged
<1>3. Sound(CancelSessionExit(e), as, l)
  BY <1>2, RunActs DEF CancelSessionExit
<1>4. Sound(ConfirmSessionExit(e), as, l)
  BY <1>2, RunActs DEF ConfirmSessionExit
<1> QED
  BY <1>1, <1>3, <1>4
-----------------------------------------------------------------------------
(* The poll of an animation frame.                                         *)
LEMMA Matches ==
  ASSUME NEW e, NEW as, NEW l, Sound(e, as, l), NEW c
  PROVE  Sound(MatchCommand(e, c), as, l) /\ Free(MatchCommand(e, c).ui) = Free(e.ui)
<1> DEFINE held == (c \in SessionButtons)
<1>1. held \in BOOLEAN
  OBVIOUS
<1>2. MatchCommand(e, c) = IF c \in Commands /\ e.ui.status = "running" /\ held # e.ui.ref[c]
                           THEN SetCommand(e, c, held, Nobody) ELSE e
  BY DEF MatchCommand
<1> HIDE DEF held
<1>3. CASE c \in Commands /\ MatchCommand(e, c) = SetCommand(e, c, held, Nobody)
  BY <1>1, <1>3, Commanded, ZenonT(30) DEF Free
<1>4. CASE MatchCommand(e, c) = e
  BY <1>4
<1> QED
  BY <1>2, <1>3, <1>4

LEMMA MappedActions ==
  ASSUME DevicesAreTyped
  PROVE  Mapped \in SUBSET Actions
BY DEF Mapped, GamepadActions, Actions, DevicesAreTyped, ResolvedDevice

LEMMA Sends ==
  ASSUME NEW e, NEW as, NEW l, Sound(e, as, l), DevicesAreTyped
  PROVE  Sound(SendInput(e), as, l)
<1> DEFINE v == [e.ui EXCEPT !.sent = Mapped]
           r == [op |-> "set-input", arg |-> Mapped, by |-> Nobody]
           f == [ui |-> v, made |-> e.made]
<1>1. e \in EffectType /\ e.ui \in UiType /\ RunsAreActions(e.ui)
  BY DEF Sound, EffectType, Good
<1>2. Mapped \in SUBSET Actions
  BY MappedActions
<1>3. /\ v \in UiType /\ v.ref = e.ui.ref /\ v.status = e.ui.status /\ v.runs = e.ui.runs
  BY <1>1, <1>2 DEF UiType
<1>4. RunsAreActions(v)
  BY <1>1, <1>3 DEF RunsAreActions
<1>5. [e EXCEPT !.ui.sent = Mapped] = f
  BY <1>1 DEF EffectType
<1> HIDE DEF v
<1>6. /\ r \in CallType /\ r.op = "set-input" /\ r.by = Nobody /\ \A c \in Commands : r.op # c
      /\ IsAwaited(v, r, l)
  <2>1. r \in CallType /\ r.op = "set-input" /\ r.by = Nobody /\ r.arg = Mapped
    BY <1>2, CallersAre DEF CallType, Operations
  <2>2. \A c \in Commands : r.op # c
    BY CallersAre
  <2> HIDE DEF r
  <2> QED
    BY <1>2, <2>1, <2>2, CallersAre DEF IsAwaited
<1> HIDE DEF r
<1>7. Sound([ui |-> v, made |-> Append(e.made, r)], as, l)
  BY <1>3, <1>4, <1>6, Calling
<1>8. Call(f, "set-input", Mapped, Nobody) = [ui |-> v, made |-> Append(e.made, r)]
  <2>1. f \in EffectType /\ f.ui = v /\ f.made = e.made
    BY <1>1, <1>3 DEF EffectType
  <2> HIDE DEF f
  <2>2. Call(f, "set-input", Mapped, Nobody)
          = [ui |-> f.ui, made |-> Append(f.made, [op |-> "set-input", arg |-> Mapped, by |-> Nobody])]
    BY <2>1, CallIs
  <2> QED
    BY <2>1, <2>2 DEF r
<1> QED
  BY <1>5, <1>7, <1>8 DEF SendInput

LEMMA Pauses ==
  ASSUME NEW e, NEW as, NEW l, Sound(e, as, l), Free(e.ui) # {}
  PROVE  Sound(PauseScreen(e), as, l)
BY Dialogs, RunActs DEF PauseScreen

(* What two handlers of a frame ask for is two free places.                *)
LEMMA TwoPlaces ==
  ASSUME NEW S \in SUBSET (1..MaxActions), NEW p \in BOOLEAN, NEW q \in BOOLEAN,
         Cardinality(S) >= Cardinality({x \in {"menu", "choice"} : IF x = "menu" THEN p ELSE q})
  PROVE  /\ p \/ q => S # {}
         /\ p /\ q => \A i \in 1..MaxActions : S \ {i} # {}
<1> DEFINE W == {x \in {"menu", "choice"} : IF x = "menu" THEN p ELSE q}
<1>1. IsFiniteSet(S) /\ Cardinality(S) \in Nat
  <2>1. IsFiniteSet(1..MaxActions)
    BY FS_Interval, CallersAre
  <2> QED
    BY <2>1, FS_Subset, FS_CardinalityType
<1>2. Cardinality({}) = 0 /\ IsFiniteSet({})
  BY FS_EmptySet
<1>3. IsFiniteSet({"menu", "choice"}) /\ Cardinality({"menu", "choice"}) = 2
  <2>1. Cardinality({"choice"}) = 1 /\ IsFiniteSet({"choice"})
    BY FS_Singleton
  <2>2. /\ IsFiniteSet({"choice"} \union {"menu"})
        /\ Cardinality({"choice"} \union {"menu"}) = 2
    BY <2>1, FS_AddElement
  <2>3. {"choice"} \union {"menu"} = {"menu", "choice"}
    OBVIOUS
  <2> QED
    BY <2>2, <2>3
<1>4. IsFiniteSet(W) /\ Cardinality(W) \in Nat
  BY <1>3, FS_Subset, FS_CardinalityType
<1>5. p \/ q => S # {}
  <2> SUFFICES ASSUME p \/ q, S = {} PROVE FALSE
    OBVIOUS
  <2>1. W # {}
    OBVIOUS
  <2> HIDE DEF W
  <2>2. Cardinality(W) # 0
    BY <1>4, <2>1, FS_EmptySet
  <2>3. 0 >= Cardinality(W)
    BY <1>2 DEF W
  <2> QED
    BY <1>4, <2>2, <2>3
<1>6. ASSUME p /\ q, NEW i \in 1..MaxActions PROVE S \ {i} # {}
  <2> SUFFICES ASSUME S \ {i} = {} PROVE FALSE
    OBVIOUS
  <2>1. S \subseteq {i} /\ Cardinality({i}) = 1 /\ IsFiniteSet({i})
    BY FS_Singleton
  <2>2. Cardinality(S) <= 1
    <3>1. S \in SUBSET {i}
      BY <2>1
    <3>2. Cardinality(S) <= Cardinality({i})
      BY <2>1, <3>1, FS_Subset
    <3> QED
      BY <2>1, <3>2
  <2>3. W = {"menu", "choice"}
    BY <1>6
  <2>4. Cardinality(W) = 2 /\ Cardinality(S) >= Cardinality(W)
    BY <1>3, <2>3
  <2> QED
    BY <1>1, <2>2, <2>4
<1> QED
  BY <1>5, <1>6

LEMMA NowIsSound ==
  ASSUME NEW u, NEW as, NEW l, Good(u, calls, as, l)
  PROVE  /\ Sound(Effect(u, <<>>), as, l) /\ Effect(u, <<>>).ui = u
         /\ Effect(u, <<>>).made = <<>> /\ calls \o Effect(u, <<>>).made = calls
<1>1. u \in UiType /\ calls \in Seq(CallType)
  BY DEF Good, CallsAreAwaited
<1>2. <<>> \in Seq(CallType) /\ calls \o <<>> = calls
  BY <1>1, ConcatEmptySeq, EmptySeq
<1>3. Effect(u, <<>>) = [ui |-> u, made |-> <<>>]
  BY DEF Effect
<1>4. Effect(u, <<>>) \in EffectType /\ Effect(u, <<>>).ui = u /\ Effect(u, <<>>).made = <<>>
  <2>1. PICK m \in Seq(CallType) : m = <<>>
    BY <1>2, Zenon
  <2>2. Effect(u, m) = [ui |-> u, made |-> m]
    BY DEF Effect
  <2>3. Effect(u, m) \in EffectType /\ Effect(u, m).ui = u /\ Effect(u, m).made = m
    BY <1>1, <2>2 DEF EffectType
  <2> QED
    BY <2>1, <2>3, Zenon
<1> QED
  BY <1>1, <1>2, <1>4 DEF Sound
-----------------------------------------------------------------------------
(* What the renderer does leaves the session alone.                        *)
LEMMA Renewed ==
  ASSUME DevicesAreTyped', session' = session, Good(ui', calls', answers', launching')
  PROVE  RendererInv'
BY DEF RendererInv, Good, CallsAreAwaited, IsAwaited, Waits, AnswersAreAwaited, RunsAreActions,
       SpeedIsKnown, PauseIsShown, Moves, LastMove, ShowsPause

LEMMA Posts ==
  ASSUME NEW e, Sound(e, answers, launching'), Post(e), DevicesAreTyped'
  PROVE  RendererInv'
<1>1. Good(e.ui, calls \o e.made, answers, launching')
  BY DEF Sound
<1>2. ui' = e.ui /\ calls' = calls \o e.made /\ answers' = answers /\ session' = session
  BY DEF Post
<1> QED
  BY <1>1, <1>2, Renewed

LEMMA Polls ==
  ASSUME RendererInv, Poll
  PROVE  RendererInv'
<1> DEFINE u == [ui EXCEPT !.menu = "menu" \in SessionButtons, !.pressed = SessionButtons]
           seen == Effect(u, <<>>)
           toggled == IF MenuPressed THEN Toggle(seen) ELSE seen
           first == MatchCommand(toggled, Order[1])
           matched == MatchCommand(first, Order[2])
           chosen == IF Chosen THEN PauseScreen(matched) ELSE matched
<1>1. DevicesAreTyped /\ Good(ui, calls, answers, launching) /\ ui \in UiType
  BY DEF RendererInv, Good
<1>2. Sound(seen, answers, launching) /\ seen.ui = u /\ Free(u) = Free(ui)
  <2>1. /\ u \in UiType /\ u.ref = ui.ref /\ u.status = ui.status /\ u.runs = ui.runs
    <3>1. ("menu" \in SessionButtons) \in BOOLEAN /\ SessionButtons \in SUBSET Buttons
      BY <1>1 DEF DevicesAreTyped, SessionButtons
    <3> QED
      BY <1>1, <3>1 DEF UiType
  <2> HIDE DEF u
  <2>2. RunsAreActions(u)
    BY <1>1, <2>1 DEF RunsAreActions, Good
  <2>3. Good(u, calls, answers, launching)
    BY <1>1, <2>1, <2>2, Altered
  <2>4. Free(u) = Free(ui)
    BY <2>1 DEF Free
  <2> QED
    BY <2>3, <2>4, NowIsSound
<1>3. /\ MenuPressed \in BOOLEAN /\ Chosen \in BOOLEAN
      /\ Cardinality(Free(ui)) >= Cardinality({x \in {"menu", "choice"} : IF x = "menu" THEN MenuPressed ELSE Chosen})
      /\ Post(SendInput(chosen)) /\ UNCHANGED <<playerVars, device, keyboard, launching>>
  <2>1. MenuPressed \in BOOLEAN /\ Chosen \in BOOLEAN
    BY DEF MenuPressed, Chosen
  <2> QED
    BY <2>1 DEF Poll
<1> HIDE DEF u
<1>4. /\ MenuPressed \/ Chosen => Free(ui) # {}
      /\ MenuPressed /\ Chosen => \A i \in 1..MaxActions : Free(ui) \ {i} # {}
  <2>1. Free(ui) \in SUBSET (1..MaxActions)
    BY DEF Free
  <2> QED
    BY <1>3, <2>1, TwoPlaces
<1> HIDE DEF seen
<1>5. Sound(toggled, answers, launching) /\ (Chosen => Free(toggled.ui) # {})
  <2>1. CASE MenuPressed
    <3>1. Sound(Toggle(seen), answers, launching)
          /\ \E i \in 1..MaxActions : Free(seen.ui) \ {i} \subseteq Free(Toggle(seen).ui)
      BY <1>2, <1>4, <2>1, Toggles
    <3> QED
      BY <1>2, <1>4, <2>1, <3>1
  <2>2. CASE ~MenuPressed
    BY <1>2, <1>4, <2>2
  <2> QED
    BY <2>1, <2>2
<1> HIDE DEF toggled
<1>6. Sound(first, answers, launching) /\ Free(first.ui) = Free(toggled.ui)
  BY <1>5, Matches
<1> HIDE DEF first
<1>7. Sound(matched, answers, launching) /\ Free(matched.ui) = Free(toggled.ui)
  BY <1>6, Matches
<1> HIDE DEF matched
<1>8. Sound(chosen, answers, launching)
  BY <1>5, <1>7, Pauses
<1> HIDE DEF chosen
<1>9. Sound(SendInput(chosen), answers, launching)
  BY <1>1, <1>8, Sends
<1>10. launching' = launching /\ DevicesAreTyped'
  BY <1>1, <1>3 DEF Post, playerVars, DevicesAreTyped
<1> QED
  BY <1>3, <1>9, <1>10, Posts
-----------------------------------------------------------------------------
(* What the player does.                                                   *)
LEMMA NowGood ==
  ASSUME RendererInv
  PROVE  /\ Sound(Now, answers, launching) /\ Now.ui = ui
         /\ ui \in UiType /\ RunsAreActions(ui)
BY NowIsSound DEF RendererInv, Now, Good

LEMMA KeysArePressed ==
  ASSUME RendererInv, NEW k \in Keys, KeyDown(k) \/ KeyUp(k)
  PROVE  RendererInv'
<1>1. Sound(Now, answers, launching) /\ Now.ui = ui /\ ui \in UiType
  BY NowGood
<1>2. PICK down \in BOOLEAN : /\ Post(Key(k, down)) /\ keyboard' = Adapted(k, down)
                              /\ keys' \subseteq keys \union {k}
                              /\ UNCHANGED <<connected, buttons, device, launching>>
  BY DEF KeyDown, KeyUp
<1>3. Sound(Key(k, down), answers, launching)
  <2>1. \/ Key(k, down) = Now
        \/ k \in Commands /\ Key(k, down) = SetCommand(Now, k, down, Nobody)
    BY DEF Key
  <2> QED
    BY <1>1, <2>1, Commanded
<1>4. DevicesAreTyped'
  BY <1>2 DEF RendererInv, DevicesAreTyped, Adapted, Post
<1>5. launching' = launching
  BY <1>2
<1> QED
  BY <1>2, <1>3, <1>4, <1>5, Posts

LEMMA MouseAndEscape ==
  ASSUME RendererInv, Escape \/ Click
  PROVE  RendererInv'
<1>1. Sound(Now, answers, launching) /\ Now.ui = ui /\ ui \in UiType
  BY NowGood
<1>2. /\ Free(Now.ui) # {} /\ UNCHANGED <<playerVars, device, keyboard, launching>>
      /\ \/ Post(CancelSessionExit(Now)) \/ Post(Toggle(Now))
         \/ Post(RequestSessionExit(Now)) \/ Post(ConfirmSessionExit(Now))
  BY <1>1 DEF Escape, Click
<1>3. PICK e : Post(e) /\ Sound(e, answers, launching)
  BY <1>1, <1>2, Dialogs, Toggles
<1>4. DevicesAreTyped' /\ launching' = launching
  BY <1>2, <1>3 DEF RendererInv, DevicesAreTyped, Post, playerVars
<1> QED
  BY <1>3, <1>4, Posts

LEMMA DevicesChange ==
  ASSUME RendererInv, Blur \/ Hold \/ ChangeDevice
  PROVE  RendererInv'
<1>1. UNCHANGED <<ui, launching, calls, answers, session>>
  BY DEF Blur, Hold, ChangeDevice
<1>2. DevicesAreTyped'
  BY DEF RendererInv, DevicesAreTyped, Blur, Hold, ChangeDevice, playerVars
<1>3. Good(ui', calls', answers', launching')
  BY <1>1 DEF RendererInv
<1> QED
  BY <1>1, <1>2, <1>3, Renewed
-----------------------------------------------------------------------------
(* launchGame, refreshLibrary, and runAction when it has listed.           *)
LEMMA LaunchingMoves ==
  ASSUME RendererInv, NEW v \in UiType, RunsAreActions(v), v.ref = ui.ref, v.runs = ui.runs,
         v.status = ui.status \/ v.status # "paused",
         NEW m, launching # "starting"
  PROVE  Good(v, calls, answers, m) /\ NothingOf(Launch, calls, answers)
<1>1. Good(ui, calls, answers, launching)
  BY DEF RendererInv
<1>2. NothingOf(Launch, calls, answers)
  BY <1>1, NothingUnderWay
<1> QED
  BY <1>1, <1>2, Altered

LEMMA LaunchOrRetry ==
  ASSUME RendererInv, LaunchGame \/ Retry
  PROVE  RendererInv'
<1>1. /\ launching # "starting"
      /\ UNCHANGED <<ui, calls, answers, session, playerVars, device, keyboard>>
      /\ launching' \in {"audio", "retry"}
  BY DEF LaunchGame, Retry
<1>2. Good(ui, calls, answers, launching')
  BY <1>1, NowGood, LaunchingMoves
<1>3. DevicesAreTyped'
  BY <1>1 DEF RendererInv, DevicesAreTyped, playerVars
<1>4. Good(ui', calls', answers', launching')
  BY <1>1, <1>2
<1> QED
  BY <1>1, <1>3, <1>4, Renewed

LEMMA StatusChanges ==
  ASSUME NEW u \in UiType, RunsAreActions(u),
         NEW status \in {"ready", "starting", "running", "paused", "stopped", "error"}
  PROVE  LET v == [u EXCEPT !.status = status]
         IN v \in UiType /\ RunsAreActions(v) /\ v.ref = u.ref /\ v.runs = u.runs /\ v.status = status
<1> DEFINE v == [u EXCEPT !.status = status]
<1>1. v \in UiType /\ v.ref = u.ref /\ v.runs = u.runs /\ v.status = status
  BY DEF UiType
<1> HIDE DEF v
<1>2. RunsAreActions(v)
  BY <1>1 DEF RunsAreActions
<1> QED
  BY <1>1, <1>2 DEF v

LEMMA RefreshOrConfigure ==
  ASSUME RendererInv, Refreshed \/ Configured
  PROVE  RendererInv'
<1>1. PICK status \in {"ready", "error", "running"} : ui' = [ui EXCEPT !.status = status]
  BY DEF Refreshed, Configured
<1>2. /\ launching # "starting" /\ launching' \in {"configure", "idle"}
      /\ UNCHANGED <<calls, answers, session, playerVars, device>> /\ keyboard' \subseteq keyboard
  BY DEF Refreshed, Configured
<1>3. ui' \in UiType /\ RunsAreActions(ui') /\ ui'.ref = ui.ref /\ ui'.runs = ui.runs /\ ui'.status # "paused"
  <2>1. status \in {"ready", "starting", "running", "paused", "stopped", "error"} /\ status # "paused"
    OBVIOUS
  <2> QED
    BY <1>1, <2>1, NowGood, StatusChanges
<1>4. Good(ui', calls, answers, launching')
  BY <1>2, <1>3, LaunchingMoves
<1>5. DevicesAreTyped'
  BY <1>2 DEF RendererInv, DevicesAreTyped, playerVars
<1>6. Good(ui', calls', answers', launching')
  BY <1>2, <1>4
<1> QED
  BY <1>2, <1>5, <1>6, Renewed

LEMMA AudioStarts ==
  ASSUME RendererInv, AudioStarted
  PROVE  RendererInv'
<1> DEFINE v == [ui EXCEPT !.status = "starting"]
           e == Effect(v, <<>>)
           r == [op |-> "start", arg |-> TRUE, by |-> Launch]
<1>1. /\ launching = "audio" /\ launching' = "starting"
      /\ Post(Call(e, "start", TRUE, Launch)) /\ UNCHANGED <<playerVars, device, keyboard>>
  BY DEF AudioStarted
<1>2. /\ v \in UiType /\ RunsAreActions(v) /\ v.ref = ui.ref /\ v.runs = ui.runs
      /\ v.status = "starting"
  BY NowGood, StatusChanges
<1> HIDE DEF v
<1>3. Good(v, calls, answers, "starting") /\ NothingOf(Launch, calls, answers)
  BY <1>1, <1>2, LaunchingMoves
<1>4. /\ Sound(e, answers, "starting") /\ e.ui = v /\ calls \o e.made = calls
      /\ e \in EffectType
  BY <1>3, NowIsSound DEF Sound
<1> HIDE DEF e
<1>5. /\ r \in CallType /\ r.op = "start" /\ r.by = Launch /\ \A c \in Commands : r.op # c
      /\ IsAwaited(v, r, "starting")
  <2>1. r \in CallType /\ r.op = "start" /\ r.by = Launch
    BY CallersAre DEF CallType, Operations
  <2>2. \A c \in Commands : r.op # c
    BY CallersAre
  <2> HIDE DEF r
  <2> QED
    BY <2>1, <2>2, CallersAre DEF IsAwaited
<1>6. Call(e, "start", TRUE, Launch) = [ui |-> v, made |-> Append(e.made, r)]
  BY <1>4, CallIs, ZenonT(30) DEF r
<1> HIDE DEF r
<1>7. Sound([ui |-> v, made |-> Append(e.made, r)], answers, "starting")
  BY <1>2, <1>3, <1>4, <1>5, Calling
<1>8. DevicesAreTyped'
  BY <1>1 DEF RendererInv, DevicesAreTyped, playerVars, Post
<1> QED
  BY <1>1, <1>6, <1>7, <1>8, Posts

LEMMA Lists ==
  ASSUME RendererInv, Listed
  PROVE  RendererInv'
<1>1. PICK i \in 1..MaxActions :
        /\ ui.runs[i].at = "listing"
        /\ ui' = [ui EXCEPT !.exitOpen = ui.exitOpen \/ ui.runs[i].exit, !.runs[i] = Idle]
  BY DEF Listed
<1>2. UNCHANGED <<playerVars, device, keyboard, launching, calls, answers, session>>
  BY DEF Listed
<1>3. ui \in UiType /\ RunsAreActions(ui) /\ Good(ui, calls, answers, launching)
  BY NowGood DEF RendererInv
<1> DEFINE w == [ui EXCEPT !.exitOpen = ui.exitOpen \/ ui.runs[i].exit]
<1>4. w \in UiType /\ w.ref = ui.ref /\ w.status = ui.status /\ w.runs = ui.runs
  <2>1. ui.runs[i] \in Runs
    BY <1>3, UiFields
  <2>2. (ui.exitOpen \/ ui.runs[i].exit) \in BOOLEAN
    OBVIOUS
  <2> QED
    BY <1>3, <2>2 DEF UiType
<1>5. ui' = [w EXCEPT !.runs[i] = Idle]
  BY <1>1, <1>3 DEF UiType
<1> HIDE DEF w
<1>6. Idle \in Runs /\ Idle.at = "idle"
  BY DEF Idle, Runs
<1>7. /\ ui' \in UiType /\ ui'.ref = ui.ref /\ ui'.status = ui.status
      /\ \A k \in 1..MaxActions : ui'.runs[k] = IF k = i THEN Idle ELSE ui.runs[k]
  <2>1. /\ [w EXCEPT !.runs[i] = Idle] \in UiType
        /\ \A k \in 1..MaxActions : [w EXCEPT !.runs[i] = Idle].runs[k] = IF k = i THEN Idle ELSE w.runs[k]
    BY <1>4, <1>6, UiFields
  <2>2. [w EXCEPT !.runs[i] = Idle].ref = w.ref /\ [w EXCEPT !.runs[i] = Idle].status = w.status
    BY <1>4 DEF UiType
  <2> QED
    BY <1>4, <1>5, <2>1, <2>2
<1>8. RunsAreActions(ui')
  BY <1>3, <1>6, <1>7 DEF RunsAreActions
<1>9. \A k \in 1..MaxActions : ui'.runs[k].at = ui.runs[k].at \/ NothingOf(k, calls, answers)
  BY <1>1, <1>3, <1>7, NothingUnderWay
<1>10. Good(ui', calls, answers, launching)
  BY <1>3, <1>7, <1>8, <1>9, Altered
<1>11. DevicesAreTyped'
  BY <1>2 DEF RendererInv, DevicesAreTyped, playerVars
<1>12. Good(ui', calls', answers', launching')
  BY <1>2, <1>10
<1> QED
  BY <1>2, <1>11, <1>12, Renewed
-----------------------------------------------------------------------------
(* The main process.                                                       *)
LEMMA OutcomeKinds ==
  ASSUME NEW s \in SessionType, NEW call \in CallType, NEW o \in Outcomes(s, call)
  PROVE  \/ /\ o = [session |-> s, ok |-> FALSE]
            /\ ~(call.op \in Commands /\ s.status = "running")
         \/ /\ call.op = "start" /\ s.status = "none"
            /\ o = [session |-> [status |-> "running", active |-> Nothing, input |-> {}], ok |-> TRUE]
         \/ /\ call.op = "pause" /\ s.status = "running"
            /\ o = [session |-> [StopClockOf(s) EXCEPT !.status = "paused"], ok |-> TRUE]
         \/ /\ call.op = "resume" /\ s.status = "paused"
            /\ o = [session |-> [s EXCEPT !.status = "running"], ok |-> TRUE]
         \/ /\ call.op = "final-stop" /\ s.status \in {"running", "paused"}
            /\ o \in {[session |-> [s EXCEPT !.status = "none"], ok |-> TRUE],
                      [session |-> [s EXCEPT !.status = "failed"], ok |-> FALSE]}
         \/ /\ call.op \in Commands /\ s.status = "running"
            /\ o = [session |-> [s EXCEPT !.active = SpeedOf(s, call.op, call.arg)], ok |-> TRUE]
         \/ /\ call.op = "set-input" /\ s.status \in {"running", "paused"}
            /\ o = [session |-> [s EXCEPT !.input = call.arg], ok |-> TRUE]
<1> DEFINE inSession == s.status \in {"running", "paused"}
<1>1. call.op \in Operations /\ Operations = Commands \union {"start", "pause", "resume", "stop", "final-stop", "set-input"}
      /\ \A c \in Commands : c \notin {"start", "pause", "resume", "stop", "final-stop", "set-input"}
  BY CallersAre DEF CallType, Operations
<1>2. CASE call.op = "start" /\ s.status = "none"
  BY <1>1, <1>2 DEF Outcomes, Refused, Accepted
<1>3. CASE call.op = "pause" /\ s.status = "running"
  BY <1>1, <1>3 DEF Outcomes, Refused, Accepted
<1>4. CASE call.op = "resume" /\ s.status = "paused"
  BY <1>1, <1>4 DEF Outcomes, Refused, Accepted
<1>5. CASE call.op = "final-stop" /\ inSession
  BY <1>1, <1>5 DEF Outcomes, Refused, Accepted
<1>6. CASE call.op \in Commands /\ s.status = "running"
  BY <1>1, <1>6 DEF Outcomes, Refused, Accepted
<1>7. CASE call.op = "set-input" /\ inSession
  BY <1>1, <1>7 DEF Outcomes, Refused, Accepted
<1>8. CASE /\ ~(call.op = "start" /\ s.status = "none") /\ ~(call.op = "pause" /\ s.status = "running")
           /\ ~(call.op = "resume" /\ s.status = "paused") /\ ~(call.op = "final-stop" /\ inSession)
           /\ ~(call.op \in Commands /\ s.status = "running") /\ ~(call.op = "set-input" /\ inSession)
  <2>1. Outcomes(s, call) = Refused(s)
    BY <1>8 DEF Outcomes
  <2> QED
    BY <1>8, <2>1 DEF Refused
<1> QED
  BY <1>2, <1>3, <1>4, <1>5, <1>6, <1>7, <1>8

LEMMA OutcomesAre ==
  ASSUME NEW s \in SessionType, \A c \in Commands : s.status = "paused" => ~s.active[c],
         NEW call \in CallType, call.op \in Commands => call.arg \in BOOLEAN,
         call.op = "set-input" => call.arg \in SUBSET Actions,
         NEW o \in Outcomes(s, call)
  PROVE  /\ o.session \in SessionType /\ o.ok \in BOOLEAN
         /\ o.ok => o.session.status # "failed"
         /\ s.status = "paused" => o.session.status = "paused" \/ call.op \in {"resume", "final-stop"}
         /\ \A c \in Commands :
              /\ o.session.status = "running" /\ o.session.active[c] =>
                   \/ call.op = c /\ call.arg
                   \/ call.op # c /\ s.status = "running" /\ s.active[c]
              /\ o.session.status = "paused" => ~o.session.active[c]
<1> DEFINE t == o.session
           Good2 == /\ t \in SessionType /\ o.ok \in BOOLEAN
                    /\ o.ok => t.status # "failed"
                    /\ s.status = "paused" => t.status = "paused" \/ call.op \in {"resume", "final-stop"}
                    /\ \A c \in Commands :
                         /\ t.status = "running" /\ t.active[c] =>
                              \/ call.op = c /\ call.arg
                              \/ call.op # c /\ s.status = "running" /\ s.active[c]
                         /\ t.status = "paused" => ~t.active[c]
<1> SUFFICES Good2
  OBVIOUS
<1>1. \A c \in Commands : c \notin {"start", "pause", "resume", "stop", "final-stop", "set-input"}
  BY CallersAre
<1>2. CASE o = [session |-> s, ok |-> FALSE] /\ ~(call.op \in Commands /\ s.status = "running")
  <2>1. t = s /\ o.ok = FALSE
    BY <1>2
  <2> HIDE DEF t
  <2> QED
    BY <1>2, <2>1
<1>3. Nothing \in [Commands -> BOOLEAN] /\ \A c \in Commands : ~Nothing[c]
  BY DEF Nothing
<1>4. ASSUME call.op \notin Commands, o.ok \in BOOLEAN, t \in SessionType, t.status # "failed",
             \A c \in Commands : ~t.active[c],
             s.status = "paused" => t.status = "paused" \/ call.op \in {"resume", "final-stop"}
      PROVE  Good2
  <2> HIDE DEF t
  <2> QED
    BY <1>4
<1>5. CASE /\ call.op = "start" /\ s.status = "none"
           /\ o = [session |-> [status |-> "running", active |-> Nothing, input |-> {}], ok |-> TRUE]
  <2>1. o.ok = TRUE /\ t.status = "running" /\ t.active = Nothing /\ t \in SessionType
    BY <1>3, <1>5 DEF SessionType
  <2> HIDE DEF t, Good2
  <2> QED
    BY <1>1, <1>3, <1>4, <1>5, <2>1
<1>6. CASE /\ call.op = "pause" /\ s.status = "running"
           /\ o = [session |-> [StopClockOf(s) EXCEPT !.status = "paused"], ok |-> TRUE]
  <2>1. o.ok = TRUE /\ t.status = "paused" /\ t.active = Nothing /\ t \in SessionType
    BY <1>3, <1>6 DEF SessionType, StopClockOf
  <2> HIDE DEF t, Good2
  <2> QED
    BY <1>1, <1>3, <1>4, <1>6, <2>1
<1>7. CASE /\ call.op = "resume" /\ s.status = "paused"
           /\ o = [session |-> [s EXCEPT !.status = "running"], ok |-> TRUE]
  <2>1. o.ok = TRUE /\ t.status = "running" /\ t.active = s.active /\ t \in SessionType
    BY <1>7 DEF SessionType
  <2> HIDE DEF t, Good2
  <2> QED
    BY <1>1, <1>4, <1>7, <2>1
<1>8. CASE /\ call.op = "final-stop" /\ s.status \in {"running", "paused"}
           /\ o \in {[session |-> [s EXCEPT !.status = "none"], ok |-> TRUE],
                     [session |-> [s EXCEPT !.status = "failed"], ok |-> FALSE]}
  <2>1. /\ o.ok \in BOOLEAN /\ t \in SessionType /\ t.status \in {"none", "failed"}
        /\ (o.ok => t.status # "failed")
    <3>1. CASE o = [session |-> [s EXCEPT !.status = "none"], ok |-> TRUE]
      BY <3>1 DEF SessionType
    <3>2. CASE o = [session |-> [s EXCEPT !.status = "failed"], ok |-> FALSE]
      BY <3>2 DEF SessionType
    <3> QED
      BY <1>8, <3>1, <3>2
  <2> HIDE DEF t
  <2> QED
    BY <1>8, <2>1
<1>9. CASE /\ call.op \in Commands /\ s.status = "running"
           /\ o = [session |-> [s EXCEPT !.active = SpeedOf(s, call.op, call.arg)], ok |-> TRUE]
  <2> DEFINE f == SpeedOf(s, call.op, call.arg)
  <2>1. /\ f \in [Commands -> BOOLEAN]
        /\ \A c \in Commands : f[c] => IF c = call.op THEN call.arg ELSE s.active[c]
    BY <1>9 DEF SpeedOf, SessionType
  <2> HIDE DEF f
  <2>2. o.ok = TRUE /\ t.status = "running" /\ t.active = f /\ t \in SessionType
    BY <1>9, <2>1 DEF SessionType, f
  <2> HIDE DEF t
  <2>3. \A c \in Commands : t.active[c] => (call.op = c /\ call.arg) \/ (call.op # c /\ s.active[c])
    BY <2>1, <2>2
  <2> QED
    BY <1>9, <2>2, <2>3
<1>10. CASE /\ call.op = "set-input" /\ s.status \in {"running", "paused"}
            /\ o = [session |-> [s EXCEPT !.input = call.arg], ok |-> TRUE]
  <2>1. o.ok = TRUE /\ t.status = s.status /\ t.active = s.active /\ t \in SessionType
    BY <1>10 DEF SessionType
  <2> HIDE DEF t
  <2> QED
    BY <1>1, <1>10, <2>1
<1> QED
  BY <1>2, <1>5, <1>6, <1>7, <1>8, <1>9, <1>10, OutcomeKinds
-----------------------------------------------------------------------------
(* The first call is taken: those behind it are in order.                  *)
LEMMA HeadLeaves ==
  ASSUME NEW u, NEW cs, NEW as, NEW l, CallsAreAwaited(u, cs, as, l), cs # <<>>
  PROVE  /\ CallsAreAwaited(u, Tail(cs), as, l)
         /\ Head(cs) \in CallType /\ IsAwaited(u, Head(cs), l)
         /\ Head(cs).by # Nobody => \A j \in DOMAIN Tail(cs) : Tail(cs)[j].by # Head(cs).by
         /\ \A j \in DOMAIN as : as[j].by # Head(cs).by
<1> DEFINE n == Len(cs)
           t == Tail(cs)
           h == Head(cs)
<1>1. /\ t \in Seq(CallType) /\ h \in CallType /\ h = cs[1]
      /\ n \in Nat \ {0} /\ DOMAIN cs = 1..n /\ DOMAIN t = 1..(n - 1)
      /\ \A j \in 1..(n - 1) : t[j] = cs[j + 1]
  BY Leaves DEF CallsAreAwaited
<1>2. \A j \in 1..(n - 1) : j + 1 \in DOMAIN cs /\ j + 1 # 1
  BY <1>1
<1>3. 1 \in DOMAIN cs
  BY <1>1
<1> HIDE DEF n, t, h
<1>4. ASSUME NEW j \in DOMAIN t PROVE IsAwaited(u, t[j], l)
  <2>1. t[j] = cs[j + 1] /\ j + 1 \in DOMAIN cs
    BY <1>1, <1>2
  <2>2. IsAwaited(u, cs[j + 1], l)
    BY <2>1 DEF CallsAreAwaited
  <2> QED
    BY <2>1, <2>2
<1>5. ASSUME NEW j \in DOMAIN t, NEW k \in DOMAIN t, t[j].by = t[k].by, t[j].by # Nobody PROVE j = k
  <2>1. t[j] = cs[j + 1] /\ t[k] = cs[k + 1] /\ j + 1 \in DOMAIN cs /\ k + 1 \in DOMAIN cs
    BY <1>1, <1>2
  <2>2. j + 1 = k + 1
    BY <1>5, <2>1 DEF CallsAreAwaited
  <2> QED
    BY <1>1, <2>2
<1>6. ASSUME NEW j \in DOMAIN t, NEW k \in DOMAIN as PROVE t[j].by # as[k].by
  <2>1. t[j] = cs[j + 1] /\ j + 1 \in DOMAIN cs
    BY <1>1, <1>2
  <2>2. \A x \in DOMAIN cs, y \in DOMAIN as : cs[x].by # as[y].by
    BY DEF CallsAreAwaited
  <2> QED
    BY <2>1, <2>2
<1>7. ASSUME NEW j \in DOMAIN t, h.by # Nobody, t[j].by = h.by PROVE FALSE
  <2>1. t[j] = cs[j + 1] /\ j + 1 \in DOMAIN cs /\ j + 1 # 1
    BY <1>1, <1>2
  <2>2. \A x, y \in DOMAIN cs : cs[x].by = cs[y].by /\ cs[x].by # Nobody => x = y
    BY DEF CallsAreAwaited
  <2> QED
    BY <1>1, <1>3, <1>7, <2>1, <2>2
<1>8. IsAwaited(u, h, l) /\ \A j \in DOMAIN as : as[j].by # h.by
  BY <1>1, <1>3 DEF CallsAreAwaited
<1>9. CallsAreAwaited(u, t, as, l)
  BY <1>1, <1>4, <1>5, <1>6 DEF CallsAreAwaited
<1> QED
  BY <1>1, <1>7, <1>8, <1>9 DEF t, h

(* The last call for a command among those behind the first is the last    *)
(* among all, and the first is the last when none is behind it.            *)
LastAgrees(u, cs) ==
  \A c \in Commands, j \in DOMAIN cs :
    cs[j].op = c /\ (\A k \in DOMAIN cs : k > j => cs[k].op # c) => cs[j].arg = u.ref[c]
NoneOf(c, cs) == \A k \in DOMAIN cs : cs[k].op # c

LEMMA LastCallStays ==
  ASSUME NEW u, NEW cs \in Seq(CallType), cs # <<>>, LastAgrees(u, cs)
  PROVE  /\ LastAgrees(u, Tail(cs))
         /\ \A c \in Commands : NoneOf(c, Tail(cs)) =>
              /\ Head(cs).op = c => Head(cs).arg = u.ref[c]
              /\ Head(cs).op # c => NoneOf(c, cs)
<1> DEFINE n == Len(cs)
           t == Tail(cs)
           h == Head(cs)
<1>1. /\ h = cs[1]
      /\ n \in Nat \ {0} /\ DOMAIN cs = 1..n /\ DOMAIN t = 1..(n - 1)
      /\ \A j \in 1..(n - 1) : t[j] = cs[j + 1]
  BY Leaves
<1> HIDE DEF n, t, h
<1>2. \A k \in 1..n : k = 1 \/ (k - 1 \in 1..(n - 1) /\ cs[k] = t[k - 1])
  <2>1. \A k \in 1..n : k # 1 => k - 1 \in 1..(n - 1) /\ (k - 1) + 1 = k
    BY <1>1
  <2> QED
    BY <1>1, <2>1
<1>3. ASSUME NEW c \in Commands, NEW j \in DOMAIN t, t[j].op = c,
             \A k \in DOMAIN t : k > j => t[k].op # c
      PROVE  t[j].arg = u.ref[c]
  <2>1. j + 1 \in 1..n /\ t[j] = cs[j + 1]
    BY <1>1
  <2>2. ASSUME NEW k \in 1..n, k > j + 1 PROVE cs[k].op # c
    <3>1. k - 1 \in 1..(n - 1) /\ cs[k] = t[k - 1]
      BY <1>1, <1>2, <2>2
    <3>2. k - 1 > j
      BY <1>1, <2>2
    <3> QED
      BY <1>1, <1>3, <3>1, <3>2
  <2> QED
    BY <1>1, <1>3, <2>1, <2>2 DEF LastAgrees
<1>4. ASSUME NEW c \in Commands, \A k \in DOMAIN t : t[k].op # c
      PROVE  /\ h.op = c => h.arg = u.ref[c]
             /\ h.op # c => \A k \in DOMAIN cs : cs[k].op # c
  <2>1. \A k \in 1..n : k # 1 => cs[k].op # c
    <3> SUFFICES ASSUME NEW k \in 1..n, k # 1 PROVE cs[k].op # c
      OBVIOUS
    <3>1. k - 1 \in DOMAIN t /\ cs[k] = t[k - 1]
      BY <1>1, <1>2
    <3> QED
      BY <1>4, <3>1
  <2>2. \A k \in 1..n : k > 1 => k # 1
    BY <1>1
  <2>3. 1 \in DOMAIN cs
    BY <1>1
  <2> QED
    BY <1>1, <2>1, <2>2, <2>3 DEF LastAgrees
<1> QED
  BY <1>3, <1>4 DEF t, h, LastAgrees, NoneOf

(* Who waits for a call is answered.                                       *)
LEMMA AnswerJoins ==
  ASSUME NEW u, NEW as, NEW l, AnswersAreAwaited(u, as, l),
         NEW call \in CallType, IsAwaited(u, call, l), call.by # Nobody,
         \A j \in DOMAIN as : as[j].by # call.by,
         NEW a \in AnswerType, a.by = call.by, a.ok => a.status # "failed"
  PROVE  AnswersAreAwaited(u, Append(as, a), l)
<1> DEFINE n == Len(as)
           new == Append(as, a)
<1>1. /\ new \in Seq(AnswerType) /\ n \in Nat /\ DOMAIN as = 1..n /\ DOMAIN new = 1..(n + 1)
      /\ new[n + 1] = a /\ \A j \in 1..n : new[j] = as[j]
  <2>1. as \in Seq(AnswerType)
    BY DEF AnswersAreAwaited
  <2>2. \A q \in Seq(AnswerType) :
          /\ Append(q, a) \in Seq(AnswerType)
          /\ Len(q) \in Nat /\ DOMAIN q = 1..Len(q) /\ DOMAIN Append(q, a) = 1..(Len(q) + 1)
          /\ Append(q, a)[Len(q) + 1] = a /\ \A j \in 1..Len(q) : Append(q, a)[j] = q[j]
    BY Joins
  <2> QED
    BY <2>1, <2>2
<1> HIDE DEF n, new
<1>2. \A j \in 1..(n + 1) : j = n + 1 \/ (j \in 1..n /\ j # n + 1)
  BY <1>1
<1>3. ASSUME NEW j \in 1..(n + 1), NEW k \in 1..(n + 1), new[j].by = new[k].by PROVE j = k
  <2>1. CASE j \in 1..n /\ k \in 1..n
    <3>1. as[j].by = as[k].by
      BY <1>1, <1>3, <2>1
    <3> QED
      BY <1>1, <2>1, <3>1 DEF AnswersAreAwaited
  <2>2. CASE j = n + 1 /\ k \in 1..n
    BY <1>1, <1>3, <2>2
  <2>3. CASE j \in 1..n /\ k = n + 1
    BY <1>1, <1>3, <2>3
  <2> QED
    BY <1>2, <2>1, <2>2, <2>3
<1>4. /\ a.by = Launch => l = "starting"
      /\ a.by \in 1..MaxActions => u.runs[a.by].at \in HeldNames \union {"asked"}
  BY CallersAre DEF IsAwaited, Waits
<1>5. ASSUME NEW j \in 1..(n + 1)
      PROVE  /\ new[j].by = Launch => l = "starting"
             /\ new[j].by \in 1..MaxActions => u.runs[new[j].by].at \in HeldNames \union {"asked"}
             /\ new[j].ok => new[j].status # "failed"
  <2>1. CASE j = n + 1
    BY <1>1, <1>4, <2>1
  <2>2. CASE j \in 1..n
    <3>1. new[j] = as[j] /\ j \in DOMAIN as
      BY <1>1, <2>2
    <3> QED
      BY <3>1 DEF AnswersAreAwaited
  <2> QED
    BY <1>2, <2>1, <2>2
<1>6. AnswersAreAwaited(u, new, l)
  BY <1>1, <1>3, <1>5 DEF AnswersAreAwaited
<1> QED
  BY <1>6 DEF new
-----------------------------------------------------------------------------
(* A stop comes round again, behind what was called meanwhile.             *)
LEMMA StopStores ==
  ASSUME RendererInv, Main, Head(calls).op = "stop"
  PROVE  RendererInv'
<1> DEFINE h == Head(calls)
           t == Tail(calls)
           r == [h EXCEPT !.op = "final-stop"]
<1>1. /\ DevicesAreTyped /\ ui \in UiType /\ RunsAreActions(ui)
      /\ calls # <<>> /\ calls \in Seq(CallType)
      /\ CallsAreAwaited(ui, calls, answers, launching) /\ AnswersAreAwaited(ui, answers, launching)
      /\ SpeedIsKnown(ui, calls) /\ PauseIsShown(ui, answers)
  BY DEF RendererInv, Good, Main, CallsAreAwaited
<1>2. /\ calls' = Append(t, r)
      /\ UNCHANGED <<answers, session, playerVars, device, keyboard, ui, launching>>
  BY DEF Main
<1>3. /\ CallsAreAwaited(ui, t, answers, launching) /\ h \in CallType /\ IsAwaited(ui, h, launching)
      /\ h.by # Nobody => NothingOf(h.by, t, answers)
  BY <1>1, HeadLeaves DEF NothingOf
<1>4. h.op = "stop" /\ \A c \in Commands : h.op # c
  BY CallersAre
<1>5. SpeedIsKnown(ui, t)
  <2>1. LastAgrees(ui, calls)
    BY <1>1 DEF SpeedIsKnown, LastAgrees
  <2>2. /\ LastAgrees(ui, t)
        /\ \A c \in Commands : NoneOf(c, t) /\ h.op # c => NoneOf(c, calls)
    BY <1>1, <2>1, LastCallStays
  <2> HIDE DEF h, t
  <2> QED
    BY <1>1, <1>4, <2>2 DEF SpeedIsKnown, LastAgrees, NoneOf
<1> HIDE DEF h, t
<1>6. Good(ui, t, answers, launching)
  BY <1>1, <1>3, <1>5 DEF Good
<1>7. /\ r \in CallType /\ r.op = "final-stop" /\ r.by = h.by /\ IsAwaited(ui, r, launching)
      /\ \A c \in Commands : r.op # c
  <2>1. r \in CallType /\ r.op = "final-stop" /\ r.by = h.by
    BY <1>3 DEF CallType, Operations
  <2>2. h.by \in 1..MaxActions /\ ui.runs[h.by].at = "asked"
    <3>1. h.by \in Callers /\ h.by # Nobody /\ h.by # Launch
      BY <1>3, <1>4, CallersAre DEF CallType, IsAwaited
    <3>2. h.by \in 1..MaxActions
      BY <3>1, CallersAre
    <3>3. Waits(ui, h.by, "stop")
      BY <1>3, <1>4, <3>2 DEF IsAwaited
    <3> QED
      BY <3>2, <3>3 DEF Waits, HeldNames
  <2>3. \A c \in Commands : r.op # c
    BY <2>1, CallersAre
  <2> HIDE DEF r
  <2>4. Waits(ui, r.by, r.op)
    BY <2>1, <2>2 DEF Waits
  <2> QED
    BY <2>1, <2>2, <2>3, <2>4, CallersAre DEF IsAwaited
<1> HIDE DEF r
<1>8. Good(ui, Append(t, r), answers, launching)
  BY <1>1, <1>3, <1>6, <1>7, Added
<1>9. DevicesAreTyped'
  BY <1>1, <1>2 DEF DevicesAreTyped, playerVars
<1>10. Good(ui', calls', answers', launching')
  BY <1>2, <1>8
<1> QED
  BY <1>2, <1>9, <1>10, Renewed

(* Every other call reaches the session, and is answered if it is waited   *)
(* for.                                                                    *)
LEMMA CallIsHandled ==
  ASSUME RendererInv, Main, Head(calls).op # "stop"
  PROVE  RendererInv'
<1> DEFINE h == Head(calls)
           t == Tail(calls)
<1>1. /\ DevicesAreTyped /\ ui \in UiType /\ RunsAreActions(ui)
      /\ calls # <<>> /\ calls \in Seq(CallType)
      /\ CallsAreAwaited(ui, calls, answers, launching) /\ AnswersAreAwaited(ui, answers, launching)
      /\ SpeedIsKnown(ui, calls) /\ PauseIsShown(ui, answers)
      /\ session \in SessionType
  BY DEF RendererInv, Good, Main, CallsAreAwaited, DevicesAreTyped, SessionType
<1>2. PICK o \in Outcomes(session, h) :
        /\ session' = o.session
        /\ answers' = IF h.by = Nobody THEN answers
                      ELSE Append(answers, [by |-> h.by, ok |-> o.ok, status |-> o.session.status])
  BY DEF Main
<1>3. /\ calls' = t
      /\ UNCHANGED <<playerVars, device, keyboard, ui, launching>>
  BY DEF Main
<1>4. /\ CallsAreAwaited(ui, t, answers, launching) /\ h \in CallType /\ IsAwaited(ui, h, launching)
      /\ h.by # Nobody => \A j \in DOMAIN t : t[j].by # h.by
      /\ \A j \in DOMAIN answers : answers[j].by # h.by
  BY <1>1, HeadLeaves
<1>5. /\ \A c \in Commands, j \in DOMAIN t :
              t[j].op = c /\ (\A k \in DOMAIN t : k > j => t[k].op # c) => t[j].arg = ui.ref[c]
      /\ \A c \in Commands : (\A k \in DOMAIN t : t[k].op # c) =>
            /\ h.op = c => h.arg = ui.ref[c]
            /\ h.op # c => \A k \in DOMAIN calls : calls[k].op # c
  <2>1. LastAgrees(ui, calls)
    BY <1>1 DEF SpeedIsKnown, LastAgrees
  <2>2. /\ LastAgrees(ui, t)
        /\ \A c \in Commands : NoneOf(c, t) =>
             /\ h.op = c => h.arg = ui.ref[c]
             /\ h.op # c => NoneOf(c, calls)
    BY <1>1, <2>1, LastCallStays
  <2> HIDE DEF h, t
  <2> QED
    BY <2>2 DEF LastAgrees, NoneOf
<1> HIDE DEF h, t
<1>6. /\ o.session \in SessionType /\ o.ok \in BOOLEAN
      /\ o.ok => o.session.status # "failed"
      /\ session.status = "paused" => o.session.status = "paused" \/ h.op \in {"resume", "final-stop"}
      /\ \A c \in Commands :
           /\ o.session.status = "running" /\ o.session.active[c] =>
                \/ h.op = c /\ h.arg
                \/ h.op # c /\ session.status = "running" /\ session.active[c]
           /\ o.session.status = "paused" => ~o.session.active[c]
  <2>1. \A c \in Commands : session.status = "paused" => ~session.active[c]
    BY <1>1 DEF SpeedIsKnown
  <2>2. (h.op \in Commands => h.arg \in BOOLEAN) /\ (h.op = "set-input" => h.arg \in SUBSET Actions)
    BY <1>4 DEF IsAwaited
  <2> QED
    BY <1>1, <1>2, <1>4, <2>1, <2>2, OutcomesAre
<1> DEFINE a == [by |-> h.by, ok |-> o.ok, status |-> o.session.status]
           n == Len(answers)
<1>7. ASSUME h.by # Nobody
      PROVE  /\ a \in AnswerType /\ a.by = h.by /\ a.ok = o.ok /\ a.status = session'.status
             /\ answers' = Append(answers, a)
             /\ n \in Nat /\ DOMAIN answers = 1..n /\ DOMAIN answers' = 1..(n + 1)
             /\ answers'[n + 1] = a /\ \A j \in 1..n : answers'[j] = answers[j]
  <2>1. o.session.status \in {"none", "running", "paused", "failed"}
    BY <1>6 DEF SessionType
  <2>2. a \in AnswerType /\ a.by = h.by /\ a.ok = o.ok /\ a.status = session'.status
    BY <1>2, <1>4, <1>6, <1>7, <2>1 DEF AnswerType, CallType
  <2>3. answers \in Seq(AnswerType) /\ answers' = Append(answers, a)
    BY <1>1, <1>2, <1>7 DEF AnswersAreAwaited
  <2> HIDE DEF a
  <2> QED
    BY <2>2, <2>3, Joins
<1> HIDE DEF a
<1>8. AnswersAreAwaited(ui, answers', launching)
  <2>1. CASE h.by = Nobody
    BY <1>1, <1>2, <2>1
  <2>2. CASE h.by # Nobody
    <3>1. a.ok => a.status # "failed"
      BY <1>2, <1>6, <1>7, <2>2
    <3> QED
      BY <1>1, <1>4, <1>7, <2>2, <3>1, AnswerJoins
  <2> QED
    BY <2>1, <2>2
<1> HIDE DEF n
<1>9. CallsAreAwaited(ui, t, answers', launching)
  <2>1. CASE h.by = Nobody
    BY <1>2, <1>4, <2>1
  <2>2. CASE h.by # Nobody
    <3>1. ASSUME NEW j \in DOMAIN t, NEW k \in 1..(n + 1) PROVE t[j].by # answers'[k].by
      <4>1. \A x \in DOMAIN t, y \in DOMAIN answers : t[x].by # answers[y].by
        BY <1>4 DEF CallsAreAwaited
      <4>2. CASE k \in 1..n
        BY <1>7, <2>2, <4>1, <4>2
      <4>3. CASE k = n + 1
        BY <1>4, <1>7, <2>2, <4>3
      <4> QED
        BY <1>7, <2>2, <4>2, <4>3
    <3> QED
      BY <1>4, <1>7, <2>2, <3>1 DEF CallsAreAwaited
  <2> QED
    BY <2>1, <2>2
<1>10. ASSUME NEW c \in Commands
       PROVE  /\ session'.status = "running" /\ session'.active[c] /\ (\A k \in DOMAIN t : t[k].op # c)
                   => ui.ref[c]
              /\ session'.status = "paused" => ~session'.active[c]
  <2>1. session'.status = "paused" => ~session'.active[c]
    BY <1>2, <1>6
  <2>2. ASSUME session'.status = "running", session'.active[c], \A k \in DOMAIN t : t[k].op # c
        PROVE  ui.ref[c]
    <3>1. CASE h.op = c
      BY <1>2, <1>5, <1>6, <2>2, <3>1
    <3>2. CASE h.op # c
      <4>1. session.status = "running" /\ session.active[c] /\ \A k \in DOMAIN calls : calls[k].op # c
        BY <1>2, <1>5, <1>6, <2>2, <3>2
      <4> QED
        BY <1>1, <4>1 DEF SpeedIsKnown
    <3> QED
      BY <3>1, <3>2
  <2> QED
    BY <2>1, <2>2
<1>11. h.by = Nobody \/ ~Moves(ui, a) => (session.status = "paused" => session'.status = "paused")
  <2>1. h.by = Nobody => h.op \in Commands \union {"set-input"}
    BY <1>4 DEF IsAwaited
  <2>2. ASSUME h.by # Nobody, ~Moves(ui, a) PROVE h.op \notin {"resume", "final-stop"}
    <3>1. h.by \in 1..MaxActions /\ ui.runs[h.by].at # "asked"
      BY <1>4, <1>7, <2>2, CallersAre DEF Moves, CallType
    <3>2. Waits(ui, h.by, h.op)
      BY <1>4, <3>1 DEF IsAwaited
    <3> QED
      BY <3>1, <3>2 DEF Waits, HeldNames
  <2> QED
    BY <1>2, <1>6, <2>1, <2>2, CallersAre
<1>12. /\ ui.status = "paused" /\ LastMove(ui, answers', 0) => session'.status = "paused"
       /\ \A j \in DOMAIN answers' : Moves(ui, answers'[j]) /\ LastMove(ui, answers', j) /\ ShowsPause(answers'[j])
                            => session'.status = "paused"
  <2>1. CASE h.by = Nobody
    BY <1>1, <1>2, <1>11, <2>1 DEF PauseIsShown
  <2>2. CASE h.by # Nobody
    <3>1. ASSUME NEW j \in 0..n, LastMove(ui, answers', j)
          PROVE  LastMove(ui, answers, j) /\ ~Moves(ui, a)
      <4>1. ~Moves(ui, a)
        <5>1. n + 1 \in DOMAIN answers' /\ n + 1 > j
          BY <1>7, <2>2
        <5> QED
          BY <1>7, <2>2, <3>1, <5>1 DEF LastMove
      <4>2. ASSUME NEW k \in DOMAIN answers, k > j PROVE ~Moves(ui, answers[k])
        <5>1. k \in DOMAIN answers' /\ answers'[k] = answers[k]
          <6>1. n \in Nat /\ k \in 1..n
            BY <1>7, <2>2
          <6>2. k \in 1..(n + 1)
            BY <6>1
          <6> QED
            BY <1>7, <2>2, <6>1, <6>2
        <5>2. ~Moves(ui, answers'[k])
          BY <3>1, <4>2, <5>1 DEF LastMove
        <5> QED
          BY <5>1, <5>2
      <4> QED
        BY <4>1, <4>2 DEF LastMove
    <3>2. ui.status = "paused" /\ LastMove(ui, answers', 0) => session'.status = "paused"
      <4>1. 0 \in 0..n
        BY <1>7, <2>2
      <4> QED
        BY <1>1, <1>11, <3>1, <4>1 DEF PauseIsShown
    <3>3. ASSUME NEW j \in DOMAIN answers', Moves(ui, answers'[j]), LastMove(ui, answers', j), ShowsPause(answers'[j])
          PROVE  session'.status = "paused"
      <4>1. CASE j = n + 1
        BY <1>7, <2>2, <3>3, <4>1 DEF ShowsPause
      <4>2. CASE j # n + 1
        <5>1. j \in 1..n /\ j \in 0..n /\ answers'[j] = answers[j]
          BY <1>7, <2>2, <4>2
        <5>2. j \in DOMAIN answers /\ LastMove(ui, answers, j) /\ ~Moves(ui, a)
          BY <1>7, <2>2, <3>1, <3>3, <5>1
        <5>3. session.status = "paused"
          BY <1>1, <3>3, <5>1, <5>2 DEF PauseIsShown
        <5> QED
          BY <1>11, <5>2, <5>3
      <4> QED
        BY <4>1, <4>2
    <3> QED
      BY <3>2, <3>3
  <2> QED
    BY <2>1, <2>2
<1>13. DevicesAreTyped'
  BY <1>1, <1>2, <1>3, <1>6 DEF DevicesAreTyped, playerVars, SessionType
<1>14. SpeedIsKnown(ui, calls)'
  BY <1>3, <1>5, <1>10 DEF SpeedIsKnown
<1>15. PauseIsShown(ui, answers)'
  BY <1>3, <1>12 DEF PauseIsShown, LastMove, Moves, ShowsPause
<1>16. CallsAreAwaited(ui, calls, answers, launching)' /\ AnswersAreAwaited(ui, answers, launching)'
       /\ (ui \in UiType /\ RunsAreActions(ui))'
  BY <1>1, <1>3, <1>8, <1>9 DEF CallsAreAwaited, AnswersAreAwaited, IsAwaited, Waits, RunsAreActions
<1> QED
  BY <1>13, <1>14, <1>15, <1>16 DEF RendererInv, Good
-----------------------------------------------------------------------------
(* The first answer is seen.                                               *)
LEMMA AnswerLeaves ==
  ASSUME RendererInv, answers # <<>>
  PROVE  LET a == Head(answers)
             t == Tail(answers)
         IN /\ a \in AnswerType /\ a.by \in {Launch} \union 1..MaxActions
            /\ a.by = Launch => launching = "starting"
            /\ a.by \in 1..MaxActions => ui.runs[a.by].at \in HeldNames \union {"asked"}
            /\ a.ok => a.status # "failed"
            /\ AnswersAreAwaited(ui, t, launching) /\ CallsAreAwaited(ui, calls, t, launching)
            /\ NothingOf(a.by, calls, t)
            /\ \A j \in DOMAIN t : Moves(ui, t[j]) /\ LastMove(ui, t, j) /\ ShowsPause(t[j])
                                     => session.status = "paused"
            /\ LastMove(ui, t, 0) =>
                 /\ ui.status = "paused" /\ ~Moves(ui, a) => session.status = "paused"
                 /\ Moves(ui, a) /\ ShowsPause(a) => session.status = "paused"
<1> DEFINE a == Head(answers)
           t == Tail(answers)
           n == Len(answers)
<1>1. /\ CallsAreAwaited(ui, calls, answers, launching) /\ AnswersAreAwaited(ui, answers, launching)
      /\ PauseIsShown(ui, answers) /\ answers \in Seq(AnswerType)
  BY DEF RendererInv, Good, AnswersAreAwaited
<1>2. /\ t \in Seq(AnswerType) /\ a \in AnswerType /\ a = answers[1]
      /\ n \in Nat \ {0} /\ DOMAIN answers = 1..n /\ DOMAIN t = 1..(n - 1)
      /\ \A j \in 1..(n - 1) : t[j] = answers[j + 1]
  BY <1>1, Leaves
<1> HIDE DEF a, t, n
<1>3. /\ 1 \in DOMAIN answers
      /\ \A j \in DOMAIN t : j + 1 \in DOMAIN answers /\ j + 1 # 1 /\ t[j] = answers[j + 1] /\ j \in Nat
      /\ \A k \in DOMAIN answers : k > 1 => k - 1 \in DOMAIN t /\ answers[k] = t[k - 1]
  <2>1. \A k \in 1..n : k > 1 => k - 1 \in 1..(n - 1) /\ (k - 1) + 1 = k
    BY <1>2
  <2> QED
    BY <1>2, <2>1
<1>4. /\ a.by \in {Launch} \union 1..MaxActions
      /\ a.by = Launch => launching = "starting"
      /\ a.by \in 1..MaxActions => ui.runs[a.by].at \in HeldNames \union {"asked"}
      /\ a.ok => a.status # "failed"
  <2>1. a.by \in {Launch} \union 1..MaxActions
    BY <1>1, <1>2, <1>3, AnswersAre
  <2> QED
    BY <1>1, <1>2, <1>3, <2>1 DEF AnswersAreAwaited
<1>5. \A j \in DOMAIN t : t[j].by # a.by
  <2>1. \A x, y \in DOMAIN answers : answers[x].by = answers[y].by => x = y
    BY <1>1 DEF AnswersAreAwaited
  <2> QED
    BY <1>2, <1>3, <2>1
<1>6. AnswersAreAwaited(ui, t, launching)
  <2>1. ASSUME NEW j \in DOMAIN t, NEW k \in DOMAIN t, t[j].by = t[k].by PROVE j = k
    <3>1. j + 1 = k + 1
      BY <1>1, <1>3, <2>1 DEF AnswersAreAwaited
    <3> QED
      BY <1>3, <3>1
  <2>2. ASSUME NEW j \in DOMAIN t
        PROVE  /\ t[j].by = Launch => launching = "starting"
               /\ t[j].by \in 1..MaxActions => ui.runs[t[j].by].at \in HeldNames \union {"asked"}
               /\ t[j].ok => t[j].status # "failed"
    <3>1. t[j] = answers[j + 1] /\ j + 1 \in DOMAIN answers
      BY <1>3
    <3> QED
      BY <1>1, <3>1 DEF AnswersAreAwaited
  <2> QED
    BY <1>2, <2>1, <2>2 DEF AnswersAreAwaited
<1>7. CallsAreAwaited(ui, calls, t, launching) /\ NothingOf(a.by, calls, t)
  <2>1. \A x \in DOMAIN calls, y \in DOMAIN answers : calls[x].by # answers[y].by
    BY <1>1 DEF CallsAreAwaited
  <2>2. \A x \in DOMAIN calls, j \in DOMAIN t : calls[x].by # t[j].by
    BY <1>3, <2>1
  <2>3. \A x \in DOMAIN calls : calls[x].by # a.by
    BY <1>2, <1>3, <2>1
  <2> QED
    BY <1>1, <1>5, <2>2, <2>3 DEF CallsAreAwaited, NothingOf
<1>8. ASSUME NEW j \in Nat, LastMove(ui, t, j) PROVE LastMove(ui, answers, j + 1)
  <2> SUFFICES ASSUME NEW k \in DOMAIN answers, k > j + 1 PROVE ~Moves(ui, answers[k])
    BY DEF LastMove
  <2>1. k - 1 \in DOMAIN t /\ answers[k] = t[k - 1] /\ k - 1 > j
    BY <1>2, <1>3
  <2> QED
    BY <1>8, <2>1 DEF LastMove
<1>9. ASSUME NEW j \in DOMAIN t, Moves(ui, t[j]), LastMove(ui, t, j), ShowsPause(t[j])
      PROVE  session.status = "paused"
  <2>1. t[j] = answers[j + 1] /\ j + 1 \in DOMAIN answers /\ LastMove(ui, answers, j + 1)
    BY <1>3, <1>8, <1>9
  <2> QED
    BY <1>1, <1>9, <2>1 DEF PauseIsShown
<1>10. ASSUME LastMove(ui, t, 0)
       PROVE  /\ ui.status = "paused" /\ ~Moves(ui, a) => session.status = "paused"
              /\ Moves(ui, a) /\ ShowsPause(a) => session.status = "paused"
  <2>1. LastMove(ui, answers, 1)
    <3>1. LastMove(ui, answers, 0 + 1)
      BY <1>8, <1>10
    <3> QED
      BY <3>1
  <2>2. ASSUME ~Moves(ui, a) PROVE LastMove(ui, answers, 0)
    <3> SUFFICES ASSUME NEW k \in DOMAIN answers PROVE ~Moves(ui, answers[k])
      BY DEF LastMove
    <3>1. CASE k = 1
      BY <1>2, <2>2, <3>1
    <3>2. CASE k > 1
      BY <2>1, <3>2 DEF LastMove
    <3> QED
      BY <1>2, <3>1, <3>2
  <2> QED
    BY <1>1, <1>2, <1>3, <2>1, <2>2 DEF PauseIsShown
<1> QED
  BY <1>2, <1>4, <1>6, <1>7, <1>9, <1>10 DEF a, t

(* What is shown once it is seen: another status than paused, the same as  *)
(* before, or the pause that the answer tells of.                          *)
LEMMA AnswerTaken ==
  ASSUME RendererInv, answers # <<>>, NEW v \in UiType, NEW m, RunsAreActions(v), v.ref = ui.ref,
         \A i \in 1..MaxActions : v.runs[i].at = ui.runs[i].at \/ i = Head(answers).by,
         m = launching \/ Head(answers).by = Launch,
         v.status = "paused" => \/ ui.status = "paused" /\ ~Moves(ui, Head(answers))
                                \/ Moves(ui, Head(answers)) /\ ShowsPause(Head(answers))
  PROVE  Good(v, calls, Tail(answers), m)
<1> DEFINE a == Head(answers)
           t == Tail(answers)
<1>1. /\ a \in AnswerType /\ a.by \in {Launch} \union 1..MaxActions
      /\ AnswersAreAwaited(ui, t, launching) /\ CallsAreAwaited(ui, calls, t, launching)
      /\ NothingOf(a.by, calls, t)
      /\ \A j \in DOMAIN t : Moves(ui, t[j]) /\ LastMove(ui, t, j) /\ ShowsPause(t[j])
                               => session.status = "paused"
      /\ LastMove(ui, t, 0) =>
           /\ ui.status = "paused" /\ ~Moves(ui, a) => session.status = "paused"
           /\ Moves(ui, a) /\ ShowsPause(a) => session.status = "paused"
  BY AnswerLeaves
<1>2. /\ \A i \in 1..MaxActions : v.runs[i].at = ui.runs[i].at \/ i = a.by
      /\ m = launching \/ a.by = Launch
      /\ v.status = "paused" => \/ ui.status = "paused" /\ ~Moves(ui, a)
                                \/ Moves(ui, a) /\ ShowsPause(a)
  OBVIOUS
<1>3. SpeedIsKnown(ui, calls)
  BY DEF RendererInv, Good
<1> HIDE DEF a, t
<1>4. CallsAreAwaited(v, calls, t, m)
  <2>1. ASSUME NEW j \in DOMAIN calls PROVE IsAwaited(v, calls[j], m)
    <3>1. IsAwaited(ui, calls[j], launching) /\ calls[j].by # a.by
      BY <1>1 DEF CallsAreAwaited, NothingOf
    <3> QED
      BY <1>2, <3>1 DEF IsAwaited, Waits
  <2> QED
    BY <1>1, <2>1 DEF CallsAreAwaited
<1>5. AnswersAreAwaited(v, t, m)
  <2>1. \A j \in DOMAIN t : t[j].by # a.by
    BY <1>1 DEF NothingOf
  <2> QED
    BY <1>1, <1>2, <2>1 DEF AnswersAreAwaited
<1>6. \A j \in DOMAIN t : Moves(v, t[j]) = Moves(ui, t[j])
  <2> SUFFICES ASSUME NEW j \in DOMAIN t, t[j].by # Launch
               PROVE  v.runs[t[j].by].at = ui.runs[t[j].by].at
    BY DEF Moves
  <2>1. t[j].by \in 1..MaxActions /\ t[j].by # a.by
    BY <1>1, AnswersAre DEF NothingOf
  <2> QED
    BY <1>2, <2>1
<1>7. PauseIsShown(v, t)
  <2>1. \A j : LastMove(v, t, j) = LastMove(ui, t, j)
    BY <1>6 DEF LastMove
  <2> QED
    BY <1>1, <1>2, <1>6, <2>1 DEF PauseIsShown
<1>8. SpeedIsKnown(v, calls)
  BY <1>3 DEF SpeedIsKnown
<1> QED
  BY <1>4, <1>5, <1>7, <1>8 DEF Good, t
-----------------------------------------------------------------------------
(* launchGame goes on.                                                     *)
LEMMA LaunchIsAnswered ==
  ASSUME RendererInv, AnswerArrives, Head(answers).by = Launch
  PROVE  RendererInv'
<1>1. /\ answers # <<>> /\ answers' = Tail(answers)
      /\ UNCHANGED <<calls, playerVars, device, keyboard, session>>
      /\ launching' \in {"refresh", "idle"}
  BY DEF AnswerArrives
<1>2. PICK status \in {"running", "error", "ready"} : ui' = [ui EXCEPT !.status = status]
  BY DEF AnswerArrives
<1>3. ui' \in UiType /\ RunsAreActions(ui') /\ ui'.ref = ui.ref /\ ui'.runs = ui.runs /\ ui'.status # "paused"
  <2>1. status \in {"ready", "starting", "running", "paused", "stopped", "error"} /\ status # "paused"
    OBVIOUS
  <2> QED
    BY <1>2, <2>1, NowGood, StatusChanges
<1>4. Good(ui', calls, Tail(answers), launching')
  BY <1>1, <1>3, AnswerTaken
<1>5. DevicesAreTyped'
  BY <1>1 DEF RendererInv, DevicesAreTyped, playerVars
<1>6. Good(ui', calls', answers', launching')
  BY <1>1, <1>4
<1> QED
  BY <1>1, <1>5, <1>6, Renewed

(* runAction goes on: with the next command or the action.                 *)
LEMMA ReleaseIsAnswered ==
  ASSUME RendererInv, answers # <<>>, NEW i \in 1..MaxActions, Head(answers).by = i,
         ui.runs[i].at \in HeldNames
  PROVE  Sound(Answered(i, Head(answers)), Tail(answers), launching)
<1> DEFINE t == Tail(answers)
<1>1. ui \in UiType /\ RunsAreActions(ui) /\ ~Moves(ui, Head(answers))
  BY NowGood, CallersAre DEF Moves, HeldNames
<1>2. Good(ui, calls, t, launching)
  BY <1>1, AnswerTaken
<1>3. NothingOf(i, calls, t)
  BY AnswerLeaves
<1> HIDE DEF t
<1>4. Sound(Now, t, launching) /\ Now.ui = ui /\ calls \o Now.made = calls
  BY <1>2, NowIsSound DEF Now
<1>5. ui.runs[i].action # "none"
  BY <1>1 DEF RunsAreActions, HeldNames
<1>6. Sound(Proceed(Now, i, 2), t, launching) /\ Sound(Proceed(Now, i, 3), t, launching)
  <2>1. 2 \in 1..3 /\ 3 \in 1..3
    OBVIOUS
  <2> QED
    BY <1>3, <1>4, <1>5, <2>1, Proceeds
<1>7. Answered(i, Head(answers)) \in {Proceed(Now, i, 2), Proceed(Now, i, 3)}
  <2>1. CASE ui.runs[i].at = "rewind"
    BY <2>1 DEF Answered
  <2>2. CASE ui.runs[i].at = "fast-forward"
    BY <2>2 DEF Answered
  <2> QED
    BY <2>1, <2>2 DEF HeldNames
<1> QED
  BY <1>6, <1>7 DEF t

(* The action is answered: its status is shown, or an error.               *)
LEMMA ActionIsAnswered ==
  ASSUME RendererInv, answers # <<>>, NEW i \in 1..MaxActions, Head(answers).by = i,
         ui.runs[i].at = "asked"
  PROVE  Sound(Answered(i, Head(answers)), Tail(answers), launching)
<1> DEFINE a == Head(answers)
           t == Tail(answers)
           e == Answered(i, a)
<1>1. /\ ui \in UiType /\ RunsAreActions(ui) /\ a \in AnswerType /\ a.by = i
      /\ (a.ok => a.status # "failed")
  BY NowGood, AnswerLeaves
<1>2. ui.runs[i] \in Runs /\ ui.runs[i].action # "none"
  BY <1>1, UiFields DEF RunsAreActions
<1>3. Idle \in Runs /\ Idle.at = "idle"
  BY DEF Idle, Runs
<1>4. Moves(ui, a)
  BY CallersAre DEF Moves
<1> SUFFICES ASSUME NEW v, e = Effect(v, <<>>),
                    v \in UiType /\ RunsAreActions(v) /\ v.ref = ui.ref,
                    \A k \in 1..MaxActions : k # i => v.runs[k] = ui.runs[k],
                    v.status = "paused" => ShowsPause(a)
             PROVE  Sound(e, t, launching)
  <2> HIDE DEF a, t, e
  <2> SUFFICES \E v : /\ e = Effect(v, <<>>)
                      /\ v \in UiType /\ RunsAreActions(v) /\ v.ref = ui.ref
                      /\ \A k \in 1..MaxActions : k # i => v.runs[k] = ui.runs[k]
                      /\ v.status = "paused" => ShowsPause(a)
    BY DEF a, t, e
  <2> DEFINE Ends(u) == [u EXCEPT !.runs[i] = Idle]
  <2>1. ASSUME NEW u \in UiType, u.ref = ui.ref, u.runs = ui.runs
        PROVE  /\ Ends(u) \in UiType /\ Ends(u).ref = ui.ref /\ Ends(u).status = u.status
               /\ RunsAreActions(Ends(u))
               /\ \A k \in 1..MaxActions : k # i => Ends(u).runs[k] = ui.runs[k]
    <3>1. /\ Ends(u) \in UiType
          /\ \A k \in 1..MaxActions : Ends(u).runs[k] = IF k = i THEN Idle ELSE u.runs[k]
      BY <1>3, UiFields
    <3>2. Ends(u).ref = u.ref /\ Ends(u).status = u.status
      BY DEF UiType
    <3> HIDE DEF Ends
    <3>3. RunsAreActions(Ends(u))
      BY <1>1, <1>3, <2>1, <3>1 DEF RunsAreActions
    <3> QED
      BY <2>1, <3>1, <3>2, <3>3
  <2>2. CASE ~a.ok
    <3> DEFINE open == (ui.exitOpen \/ ui.runs[i].exit)
               u == [ui EXCEPT !.status = "error", !.exitOpen = open]
    <3>1. e = Effect(Ends(u), <<>>)
      BY <2>2 DEF Answered, e
    <3>2. open \in BOOLEAN
      OBVIOUS
    <3> HIDE DEF open
    <3>3. u \in UiType /\ u.ref = ui.ref /\ u.runs = ui.runs /\ u.status = "error"
      BY <1>1, <3>2 DEF UiType
    <3> HIDE DEF u
    <3>4. /\ Ends(u) \in UiType /\ Ends(u).ref = ui.ref /\ Ends(u).status = "error"
          /\ RunsAreActions(Ends(u))
          /\ \A k \in 1..MaxActions : k # i => Ends(u).runs[k] = ui.runs[k]
      BY <2>1, <3>3
    <3> HIDE DEF Ends
    <3> QED
      BY <3>1, <3>4
  <2>3. CASE a.ok
    <3> DEFINE status == IF a.status = "none" THEN "stopped" ELSE a.status
               u == [ui EXCEPT !.status = status]
               w == [u EXCEPT !.runs[i].at = "listing"]
    <3>1. e = Effect(IF ui.runs[i].action = "pause" THEN w ELSE Ends(u), <<>>)
      BY <2>3 DEF Answered, e
    <3>2. status \in {"stopped", "running", "paused"} /\ (status = "paused" => a.status = "paused")
      BY <1>1, <2>3 DEF AnswerType
    <3> HIDE DEF status
    <3>3. /\ u \in UiType /\ u.ref = ui.ref /\ u.runs = ui.runs /\ u.status = status
          /\ RunsAreActions(u)
      <4>1. status \in {"ready", "starting", "running", "paused", "stopped", "error"}
        BY <3>2
      <4> QED
        BY <1>1, <4>1, StatusChanges
    <3> HIDE DEF u
    <3>4. u.status = "paused" => ShowsPause(a)
      BY <1>1, <2>3, <3>2, <3>3, CallersAre DEF ShowsPause
    <3>5. CASE ui.runs[i].action = "pause"
      <4>1. /\ w \in UiType /\ w.ref = u.ref /\ w.status = u.status
            /\ w.runs[i].action = u.runs[i].action
            /\ \A k \in 1..MaxActions : k # i => w.runs[k] = u.runs[k]
        <5>1. "listing" \in HeldNames \union {"idle", "asked", "listing"}
          OBVIOUS
        <5>2. w = ComesTo(u, i, "listing")
          BY DEF ComesTo
        <5> HIDE DEF w
        <5> QED
          BY <3>3, <5>1, <5>2, UiWaits
      <4> HIDE DEF w
      <4>2. RunsAreActions(w)
        BY <1>2, <3>3, <4>1 DEF RunsAreActions
      <4>3. e = Effect(w, <<>>)
        BY <3>1, <3>5
      <4> QED
        BY <3>3, <3>4, <4>1, <4>2, <4>3
    <3>6. CASE ui.runs[i].action # "pause"
      <4>1. /\ Ends(u) \in UiType /\ Ends(u).ref = ui.ref /\ Ends(u).status = u.status
            /\ RunsAreActions(Ends(u))
            /\ \A k \in 1..MaxActions : k # i => Ends(u).runs[k] = ui.runs[k]
        BY <2>1, <3>3
      <4>2. e = Effect(Ends(u), <<>>)
        BY <3>1, <3>6
      <4> HIDE DEF Ends
      <4> QED
        BY <3>4, <4>1, <4>2
    <3> QED
      BY <3>5, <3>6
  <2> QED
    BY <2>2, <2>3
<1>5. Good(v, calls, t, launching)
  BY <1>1, <1>4, AnswerTaken
<1> HIDE DEF e, a, t
<1> QED
  BY <1>5, NowIsSound

LEMMA AnswersArrive ==
  ASSUME RendererInv, AnswerArrives
  PROVE  RendererInv'
<1> DEFINE a == Head(answers)
<1>1. /\ answers # <<>> /\ answers' = Tail(answers)
      /\ UNCHANGED <<playerVars, device, keyboard, session>>
  BY DEF AnswerArrives
<1>2. CASE a.by = Launch
  BY <1>2, LaunchIsAnswered
<1>3. CASE a.by # Launch
  <2> DEFINE e == Answered(a.by, a)
  <2>1. /\ ui' = e.ui /\ calls' = calls \o e.made /\ launching' = launching
    BY <1>3 DEF AnswerArrives
  <2>2. a.by \in 1..MaxActions /\ ui.runs[a.by].at \in HeldNames \union {"asked"}
    BY <1>1, <1>3, AnswerLeaves
  <2>3. Sound(e, Tail(answers), launching)
    BY <1>1, <2>2, ReleaseIsAnswered, ActionIsAnswered
  <2> HIDE DEF e
  <2>4. Good(ui', calls', answers', launching')
    BY <1>1, <2>1, <2>3 DEF Sound
  <2>5. DevicesAreTyped'
    BY <1>1, <2>1 DEF RendererInv, DevicesAreTyped, playerVars
  <2> QED
    BY <1>1, <2>4, <2>5, Renewed
<1> QED
  BY <1>2, <1>3
-----------------------------------------------------------------------------
LEMMA RendererInitInductive == RendererInit => RendererInv
<1> SUFFICES ASSUME RendererInit PROVE RendererInv
  OBVIOUS
<1>1. Nothing \in [Commands -> BOOLEAN] /\ \A c \in Commands : ~Nothing[c]
  BY DEF Nothing
<1>2. DevicesAreTyped
  BY <1>1 DEF RendererInit, DevicesAreTyped, SessionType
<1> DEFINE runs == [i \in 1..MaxActions |-> Idle]
<1>3. runs \in [1..MaxActions -> Runs] /\ \A i \in 1..MaxActions : runs[i].at = "idle"
  <2>1. Idle \in Runs /\ Idle.at = "idle"
    BY DEF Idle, Runs
  <2> HIDE DEF Idle
  <2> QED
    BY <2>1
<1>4. ui = [status |-> "ready", exitOpen |-> FALSE, exitWasRunning |-> FALSE,
            ref |-> Nothing, menu |-> FALSE, pressed |-> {}, sent |-> {}, runs |-> runs]
  BY DEF RendererInit
<1> HIDE DEF runs
<1>5. ui \in UiType /\ ui.status = "ready" /\ ui.runs = runs
  <2>1. {} \in SUBSET Buttons /\ {} \in SUBSET Actions
    OBVIOUS
  <2> QED
    BY <1>1, <1>3, <1>4, <2>1 DEF UiType
<1>6. RunsAreActions(ui)
  BY <1>3, <1>5 DEF RunsAreActions
<1>7. /\ calls = <<>> /\ answers = <<>> /\ calls \in Seq(CallType) /\ answers \in Seq(AnswerType)
      /\ DOMAIN calls = {} /\ DOMAIN answers = {}
  <2>1. calls = <<>> /\ answers = <<>>
    BY DEF RendererInit
  <2>2. calls \in Seq(CallType) /\ answers \in Seq(AnswerType)
    BY <2>1
  <2>3. DOMAIN calls = {} /\ DOMAIN answers = {}
    BY <2>1
  <2> QED
    BY <2>1, <2>2, <2>3
<1>8. session.status = "none"
  BY DEF RendererInit
<1>9. CallsAreAwaited(ui, calls, answers, launching) /\ AnswersAreAwaited(ui, answers, launching)
  BY <1>7 DEF CallsAreAwaited, AnswersAreAwaited
<1>10. SpeedIsKnown(ui, calls) /\ PauseIsShown(ui, answers)
  BY <1>5, <1>7, <1>8 DEF SpeedIsKnown, PauseIsShown
<1> QED
  BY <1>2, <1>5, <1>6, <1>9, <1>10 DEF RendererInv, Good

LEMMA RendererInductive == RendererInv /\ [RendererNext]_rendererVars => RendererInv'
<1> SUFFICES ASSUME RendererInv, [RendererNext]_rendererVars PROVE RendererInv'
  OBVIOUS
<1>1. CASE Gesture
  BY <1>1, KeysArePressed, MouseAndEscape, DevicesChange, LaunchOrRetry DEF Gesture
<1>2. CASE Poll
  BY <1>2, Polls
<1>3. CASE Main
  BY <1>3, StopStores, CallIsHandled
<1>4. CASE AnswerArrives \/ Listed
  BY <1>4, AnswersArrive, Lists
<1>5. CASE AudioStarted \/ Refreshed \/ Configured
  BY <1>5, AudioStarts, RefreshOrConfigure
<1>6. CASE UNCHANGED rendererVars
  <2>1. DevicesAreTyped' /\ Good(ui', calls', answers', launching') /\ session' = session
    BY <1>6 DEF rendererVars, playerVars, RendererInv, DevicesAreTyped
  <2> QED
    BY <2>1, Renewed
<1> QED
  BY <1>1, <1>2, <1>3, <1>4, <1>5, <1>6 DEF RendererNext

LEMMA RendererInvariance == RendererSpec => []RendererInv
BY RendererInitInductive, RendererInductive, PTL DEF RendererSpec

(* Every answer and every call of the renderer finds who waits for it, and *)
(* the states of ProductApp stay of their types (renderer.tsx): for any    *)
(* held commands and any number of runActions.                             *)
THEOREM RendererStaysTyped == RendererSpec => []RendererTypeOK
<1>1. RendererInv => RendererTypeOK
  <2> SUFFICES ASSUME RendererInv PROVE RendererTypeOK
    OBVIOUS
  <2>1. /\ DevicesAreTyped /\ ui \in UiType /\ calls \in Seq(CallType) /\ AnswersAreAwaited(ui, answers, launching)
    BY DEF RendererInv, Good, CallsAreAwaited
  <2>2. \A i \in DOMAIN calls : calls[i].op \in Operations /\ calls[i].by \in Callers
    <3>1. \A i \in DOMAIN calls : calls[i] \in CallType
      BY <2>1, ElementOfSeq, LenProperties
    <3> QED
      BY <3>1 DEF CallType
  <2>3. \A i \in DOMAIN answers : answers[i].by \in Callers \ {Nobody} /\ answers[i].ok \in BOOLEAN
    BY <2>1, AnswersAre DEF AnswerType
  <2> QED
    BY <2>1, <2>2, <2>3 DEF RendererTypeOK, DevicesAreTyped, UiType, SessionType
<1> QED
  BY <1>1, RendererInvariance, PTL

(* A rewind or fast-forward that goes on in the session is one the         *)
(* renderer knows to be on, once its calls and answers are through         *)
(* (renderer.tsx, sameboy-worker.ts): for any held commands, and any       *)
(* number of gestures, of runActions that overlap and of calls that wait.  *)
THEOREM NoCommandIsStuck == RendererSpec => []NoStuckCommand
<1>1. RendererInv => NoStuckCommand
  <2> SUFFICES ASSUME RendererInv, Quiet, session.status = "running", NEW c \in Commands, session.active[c]
               PROVE  ui.ref[c]
    BY DEF NoStuckCommand
  <2>1. DOMAIN calls = {}
    BY DEF Quiet
  <2> QED
    BY <2>1 DEF RendererInv, Good, SpeedIsKnown
<1> QED
  BY <1>1, RendererInvariance, PTL

(* A game shown as paused is not running, once calls and answers are       *)
(* through (renderer.tsx, session-lifecycle.ts): for any held commands and *)
(* any number of runActions that overlap.                                  *)
THEOREM WhatShowsPausedIsPaused == RendererSpec => []PausedIsPaused
<1>1. RendererInv => PausedIsPaused
  <2> SUFFICES ASSUME RendererInv, Quiet, ui.status = "paused" PROVE session.status = "paused"
    BY DEF PausedIsPaused
  <2>1. DOMAIN answers = {} /\ PauseIsShown(ui, answers)
    BY DEF Quiet, RendererInv, Good
  <2>2. LastMove(ui, answers, 0)
    BY <2>1 DEF LastMove
  <2> QED
    BY <2>1, <2>2 DEF PauseIsShown
<1> QED
  BY <1>1, RendererInvariance, PTL
=============================================================================
