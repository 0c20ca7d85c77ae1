------------------------------- MODULE CoreProofs -------------------------------
(***************************************************************************)
(* Proofs about the worker threads of the two cores and the clock they run *)
(* by, for any capture interval, length of the ring, save interval and     *)
(* buffer, any frame duration and any imprecision of the timers.           *)
(***************************************************************************)
EXTENDS MCParts, RendererProofs

(***************************************************************************)
(* The ring of SameBoyWorker.  IsRing says what RingIsHistory and the      *)
(* rewind need of it: its states are apart, and none is after `last`.      *)
(***************************************************************************)
Apart(ring) ==
  \A i, j \in DOMAIN ring : i < j => ring[j] - ring[i] >= (j - i) * CaptureInterval

IsRing(ring, last) ==
  /\ ring \in Seq(1..MaxFrames) /\ Apart(ring)
  /\ \A i \in DOMAIN ring : ring[i] <= last

LEMMA Numbers == CaptureInterval \in Nat /\ CaptureInterval >= 2 /\ MaxFrames \in Nat
  BY SameBoyAssumption

(* How far two states are apart grows with their distance in the ring.     *)
LEMMA DistanceGrows ==
  ASSUME NEW c \in Nat, NEW n \in Nat
  PROVE  /\ n * c \in Nat
         /\ (n + 1) * c = n * c + c
  BY SMT

LEMMA AppendIsRing ==
  ASSUME NEW ring, NEW last \in Int, IsRing(ring, last),
         NEW at \in 1..MaxFrames, at - last >= CaptureInterval
  PROVE  IsRing(Append(ring, at), at) /\ Len(Append(ring, at)) = Len(ring) + 1
<1> USE Numbers
<1> DEFINE new == Append(ring, at)
<1>1. /\ new \in Seq(1..MaxFrames) /\ Len(new) = Len(ring) + 1 /\ Len(ring) \in Nat
      /\ \A i \in 1..Len(ring) : new[i] = ring[i]
      /\ new[Len(ring) + 1] = at
      /\ DOMAIN ring = 1..Len(ring) /\ DOMAIN new = 1..(Len(ring) + 1)
  BY AppendProperties, LenProperties DEF IsRing
<1>2. \A i \in 1..Len(ring) : ring[i] \in Int /\ ring[i] <= last
  <2>1. \A i \in 1..Len(ring) : ring[i] \in 1..MaxFrames
    BY <1>1 DEF IsRing
  <2> QED
    BY <1>1, <2>1 DEF IsRing
<1>3. ASSUME NEW i \in DOMAIN new, NEW j \in DOMAIN new, i < j
      PROVE  new[j] - new[i] >= (j - i) * CaptureInterval
  <2>1. CASE j <= Len(ring)
    BY <1>1, <1>3, <2>1 DEF IsRing, Apart
  <2>2. CASE j = Len(ring) + 1
    <3>1. i \in 1..Len(ring) /\ new[i] = ring[i] /\ new[j] = at
      BY <1>1, <1>3, <2>2
    <3>2. CASE i = Len(ring)
      <4>1. (j - i) * CaptureInterval = CaptureInterval
        BY <2>2, <3>2, <1>1
      <4>2. at - ring[i] >= CaptureInterval
        BY <1>2, <3>1
      <4> QED
        BY <4>1, <4>2, <3>1
    <3>3. CASE i < Len(ring)
      <4>1. Len(ring) \in DOMAIN ring /\ i \in DOMAIN ring
        BY <1>1, <3>1, <3>3
      <4>2. ring[Len(ring)] - ring[i] >= (Len(ring) - i) * CaptureInterval
        BY <4>1, <3>3 DEF IsRing, Apart
      <4>3. (j - i) * CaptureInterval = (Len(ring) - i) * CaptureInterval + CaptureInterval
        <5>1. Len(ring) - i \in Nat /\ j - i = (Len(ring) - i) + 1
          BY <1>1, <2>2, <3>1, <3>3
        <5> QED
          BY <5>1, DistanceGrows
      <4> DEFINE p == (Len(ring) - i) * CaptureInterval
      <4>4. p \in Nat /\ ring[Len(ring)] - ring[i] >= p
        BY <1>1, <3>1, <3>3, <4>2, DistanceGrows
      <4>5. at - ring[Len(ring)] >= CaptureInterval /\ ring[Len(ring)] \in Int /\ ring[i] \in Int
        BY <4>1, <1>1, <1>2
      <4>6. at - ring[i] >= p + CaptureInterval
        <5> HIDE DEF p
        <5> QED
          BY <4>4, <4>5
      <4> QED
        BY <4>3, <4>6, <3>1
    <3> QED
      BY <3>1, <3>2, <3>3, <1>1
  <2> QED
    BY <1>1, <2>1, <2>2
<1>4. \A i \in DOMAIN new : new[i] <= at
  BY <1>1, <1>2
<1> QED
  BY <1>1, <1>3, <1>4 DEF IsRing, Apart

LEMMA TailIsRing ==
  ASSUME NEW ring, NEW last \in Int, IsRing(ring, last), ring # <<>>
  PROVE  IsRing(Tail(ring), last) /\ Len(Tail(ring)) = Len(ring) - 1
<1>1. /\ Tail(ring) \in Seq(1..MaxFrames) /\ Len(Tail(ring)) = Len(ring) - 1
      /\ \A i \in 1..Len(Tail(ring)) : Tail(ring)[i] = ring[i + 1]
      /\ Len(ring) \in Nat
      /\ DOMAIN ring = 1..Len(ring) /\ DOMAIN Tail(ring) = 1..(Len(ring) - 1)
  BY HeadTailProperties, LenProperties DEF IsRing
<1>2. ASSUME NEW i \in DOMAIN Tail(ring), NEW j \in DOMAIN Tail(ring), i < j
      PROVE  Tail(ring)[j] - Tail(ring)[i] >= (j - i) * CaptureInterval
  <2>1. /\ i + 1 \in DOMAIN ring /\ j + 1 \in DOMAIN ring /\ i + 1 < j + 1
        /\ (j + 1) - (i + 1) = j - i
        /\ Tail(ring)[j] = ring[j + 1] /\ Tail(ring)[i] = ring[i + 1]
    BY <1>1, <1>2
  <2>2. ring[j + 1] - ring[i + 1] >= ((j + 1) - (i + 1)) * CaptureInterval
    BY <2>1 DEF IsRing, Apart
  <2> QED
    BY <2>1, <2>2
<1>3. \A i \in DOMAIN Tail(ring) : Tail(ring)[i] <= last
  BY <1>1 DEF IsRing
<1> QED
  BY <1>1, <1>2, <1>3 DEF IsRing, Apart

(* The newest state of the ring is after all the others. *)
LEMMA FrontIsRing ==
  ASSUME NEW ring, NEW last \in Int, IsRing(ring, last), ring # <<>>
  PROVE  /\ IsRing(Front(ring), Last(ring)) /\ IsRing(Front(ring), last)
         /\ Len(Front(ring)) = Len(ring) - 1
         /\ Last(ring) \in 1..MaxFrames /\ Last(ring) <= last
<1> USE Numbers
<1> DEFINE n == Len(ring)
<1>1. /\ n \in Nat \ {0} /\ DOMAIN ring = 1..n
      /\ \A i \in 1..n : ring[i] \in 1..MaxFrames /\ ring[i] <= last
  BY EmptySeq, LenProperties, ElementOfSeq DEF IsRing
<1>2. Last(ring) = ring[n]
  BY DEF Last
<1>3. /\ Front(ring) \in Seq(1..MaxFrames) /\ Len(Front(ring)) = n - 1
      /\ DOMAIN Front(ring) = 1..(n - 1)
      /\ \A i \in 1..(n - 1) : Front(ring)[i] = ring[i]
  <2>1. \A i \in 1..(n - 1) : ring[i] \in 1..MaxFrames
    BY <1>1
  <2>2. /\ SubSeq(ring, 1, n - 1) \in Seq(1..MaxFrames)
        /\ Len(SubSeq(ring, 1, n - 1)) = IF 1 <= n - 1 THEN (n - 1) - 1 + 1 ELSE 0
        /\ \A i \in 1..((n - 1) - 1 + 1) : SubSeq(ring, 1, n - 1)[i] = ring[1 + i - 1]
    BY <1>1, <2>1, SubSeqProperties
  <2>3. Len(SubSeq(ring, 1, n - 1)) = n - 1
    BY <2>2, <1>1
  <2>4. DOMAIN SubSeq(ring, 1, n - 1) = 1..(n - 1)
    BY <2>2, <2>3, LenProperties
  <2> QED
    BY <1>1, <2>2, <2>3, <2>4 DEF Front
<1>4. Apart(Front(ring)) /\ \A i \in DOMAIN Front(ring) : Front(ring)[i] <= last
  <2>1. \A i \in DOMAIN Front(ring) : i \in DOMAIN ring /\ Front(ring)[i] = ring[i]
    BY <1>1, <1>3
  <2> QED
    BY <2>1 DEF IsRing, Apart
<1>5. ASSUME NEW i \in DOMAIN Front(ring) PROVE Front(ring)[i] <= Last(ring)
  <2>1. ring[n] - ring[i] >= (n - i) * CaptureInterval
    <3>1. n \in DOMAIN ring /\ i \in DOMAIN ring /\ i < n
      BY <1>1, <1>3
    <3> QED
      BY <3>1 DEF IsRing, Apart
  <2>2. (n - i) * CaptureInterval \in Nat
    BY <1>1, <1>3, DistanceGrows
  <2>3. ring[n] \in Int /\ ring[i] \in Int /\ Front(ring)[i] = ring[i]
    BY <1>1, <1>3
  <2>4. ring[i] <= ring[n]
    BY <2>1, <2>2, <2>3
  <2> QED
    BY <1>2, <2>3, <2>4
<1> QED
  BY <1>1, <1>2, <1>3, <1>4, <1>5 DEF IsRing
-----------------------------------------------------------------------------
(***************************************************************************)
(* The thread of SameBoy.  One timer is pending while the session runs,    *)
(* and the flags of the two speeds are set at no other time (Clock); every *)
(* state of the ring is of the past of the game that is shown (Ring); the  *)
(* samples are taken as fast as they are buffered (Audio); and the battery *)
(* has been dirty for no longer than since it was last looked at (Saves).  *)
(***************************************************************************)
Clock ==
  /\ timers = IF status = "running" THEN 1 ELSE 0
  /\ status \in {"running", "paused"} => hasRom
  /\ ~(rewindActive /\ fastForwardActive)
  /\ rewindActive \/ fastForwardActive => status = "running"

Ring ==
  /\ IsRing(rewindStates, frames - framesSinceRewindCapture)
  /\ Len(rewindStates) <= RewindLimit
  /\ shown <= frames
  /\ \A i \in DOMAIN rewindStates : rewindStates[i] <= shown

Audio ==
  /\ samples = <<>>
  /\ posted \in Seq(Speed) /\ \A i \in DOMAIN posted : posted[i] = "normal"

Saves ==
  /\ unsaved <= framesSinceSaveCheck
  /\ ~hasRom => unsaved = 0

CoreInv == TypeOK /\ Clock /\ Ring /\ Audio /\ Saves

LEMMA CoreInit == Init => CoreInv
<1> SUFFICES ASSUME Init PROVE CoreInv
  OBVIOUS
<1>1. /\ <<>> \in Seq(1..MaxFrames) /\ <<>> \in Seq(Speed) /\ Len(<<>>) = 0
      /\ DOMAIN <<>> = {}
  BY EmptySeq, LenProperties
<1>2. TypeOK
  <2>1. reply = Thread!NoAnswer
    BY DEF Init, Thread!NoAnswer, Thread!Answer
  <2>2. /\ framesSinceRewindCapture \in 0..(CaptureInterval - 1)
        /\ framesSinceSaveCheck \in 0..(SaveInterval - 1) /\ unsaved \in 0..SaveInterval
        /\ frames \in 0..MaxFrames /\ shown \in 0..MaxFrames
    BY SameBoyAssumption DEF Init
  <2>3. rewindStates \in Seq(1..MaxFrames) /\ samples \in Seq(Speed) /\ posted \in Seq(Speed)
    BY <1>1 DEF Init
  <2> QED
    BY <2>1, <2>2, <2>3 DEF Init, TypeOK
<1>3. Clock /\ Saves /\ Audio
  BY <1>1 DEF Init, Clock, Saves, Audio
<1>4. Ring
  BY <1>1, SameBoyAssumption DEF Init, Ring, IsRing, Apart
<1> QED
  BY <1>2, <1>3, <1>4 DEF CoreInv

(* runFrame, emulating: a state is captured when the interval is over.     *)
LEMMA Emulated ==
  ASSUME TypeOK, Ring, NEW n \in {1, 2}, Emulate(n)
  PROVE  /\ Ring' /\ rewindStates' \in Seq(1..MaxFrames)
         /\ framesSinceRewindCapture' \in 0..(CaptureInterval - 1)
         /\ frames' \in 0..MaxFrames /\ shown' \in 0..MaxFrames
<1> USE Numbers
<1> DEFINE count == framesSinceRewindCapture + n
           due   == count >= CaptureInterval
           at    == frames + CaptureInterval - framesSinceRewindCapture
           last  == frames - framesSinceRewindCapture
<1>1. /\ frames \in Nat /\ framesSinceRewindCapture \in Nat
      /\ framesSinceRewindCapture < CaptureInterval /\ n \in Nat /\ n <= 2
  BY DEF TypeOK
<1>2. /\ frames' = frames + n /\ frames' <= MaxFrames /\ shown' = frames'
      /\ framesSinceRewindCapture' = IF due THEN count - CaptureInterval ELSE count
      /\ \/ due /\ rewindStates' = Trim(Append(rewindStates, at))
         \/ UNCHANGED rewindStates
  BY DEF Emulate
<1>3. /\ framesSinceRewindCapture' \in 0..(CaptureInterval - 1)
      /\ frames' \in 0..MaxFrames /\ shown' \in 0..MaxFrames /\ n \in 1..2
  BY <1>1, <1>2
<1>4. IsRing(rewindStates', frames' - framesSinceRewindCapture') /\ Len(rewindStates') <= RewindLimit
  <2>1. IsRing(rewindStates, last) /\ Len(rewindStates) <= RewindLimit /\ last \in Int
    BY <1>1 DEF Ring
  <2>2. CASE due /\ rewindStates' = Trim(Append(rewindStates, at))
    <3>1. at \in Int /\ at \in 1..MaxFrames /\ at - last >= CaptureInterval
      BY <1>1, <1>2, <2>2
    <3>2. at = frames' - framesSinceRewindCapture'
      BY <1>1, <1>2, <2>2
    <3> DEFINE new == Append(rewindStates, at)
    <3>3. IsRing(new, at) /\ Len(new) = Len(rewindStates) + 1
      BY <2>1, <3>1, AppendIsRing
    <3>4. new # <<>>
      BY <2>1, <3>1, AppendProperties DEF IsRing
    <3>5. IsRing(Tail(new), at) /\ Len(Tail(new)) = Len(new) - 1
      BY <3>1, <3>3, <3>4, TailIsRing
    <3>6. Len(rewindStates) \in Nat /\ RewindLimit \in Nat
      BY <2>1, LenProperties, SameBoyAssumption DEF IsRing
    <3>7. IsRing(Trim(new), at) /\ Len(Trim(new)) <= RewindLimit
      BY <2>1, <3>3, <3>5, <3>6 DEF Trim
    <3> QED
      BY <2>2, <3>2, <3>7
  <2>3. CASE UNCHANGED rewindStates
    <3>1. last <= frames' - framesSinceRewindCapture'
      BY <1>1, <1>2
    <3>2. \A i \in DOMAIN rewindStates : rewindStates[i] \in Int /\ rewindStates[i] <= last
      <4>1. \A i \in DOMAIN rewindStates : rewindStates[i] \in 1..MaxFrames
        BY <2>1, LenProperties DEF IsRing
      <4> QED
        BY <2>1, <4>1 DEF IsRing
    <3>3. \A i \in DOMAIN rewindStates : rewindStates[i] <= frames' - framesSinceRewindCapture'
      BY <1>3, <2>1, <3>1, <3>2
    <3> QED
      BY <2>1, <2>3, <3>3 DEF IsRing
  <2> QED
    BY <1>2, <2>2, <2>3
<1>5. \A i \in DOMAIN rewindStates' : rewindStates'[i] <= shown'
  <2>1. \A i \in DOMAIN rewindStates' : rewindStates'[i] \in 1..MaxFrames
    BY <1>4, LenProperties DEF IsRing
  <2>2. \A i \in DOMAIN rewindStates' : rewindStates'[i] <= frames' - framesSinceRewindCapture'
    BY <1>4 DEF IsRing
  <2> QED
    BY <1>2, <1>3, <2>1, <2>2
<1> QED
  BY <1>2, <1>3, <1>4, <1>5 DEF Ring, IsRing

(* runFrame, rewinding: the game goes back to the newest state.            *)
LEMMA Rewound ==
  ASSUME TypeOK, Ring, Rewind
  PROVE  /\ Ring' /\ rewindStates' \in Seq(1..MaxFrames)
         /\ UNCHANGED <<frames, framesSinceRewindCapture>>
         /\ shown' \in 0..MaxFrames /\ shown' <= shown
<1> USE Numbers
<1> DEFINE last == frames - framesSinceRewindCapture
<1>1. /\ frames \in Nat /\ framesSinceRewindCapture \in Nat /\ last \in Int
      /\ shown \in 0..MaxFrames
      /\ UNCHANGED <<frames, framesSinceRewindCapture>>
  BY DEF TypeOK, Rewind
<1>2. CASE rewindStates = <<>>
  BY <1>1, <1>2 DEF Rewind, Ring, TypeOK
<1>3. CASE rewindStates # <<>>
  <2>1. shown' = Last(rewindStates) /\ rewindStates' = Front(rewindStates)
    BY <1>3 DEF Rewind
  <2>2. /\ IsRing(rewindStates', shown') /\ IsRing(rewindStates', last)
        /\ Len(rewindStates') = Len(rewindStates) - 1
        /\ shown' \in 1..MaxFrames /\ shown' <= last
    BY <1>1, <1>3, <2>1, FrontIsRing DEF Ring
  <2>3. Len(rewindStates) \in Nat \ {0} /\ RewindLimit \in Nat /\ Len(rewindStates) <= RewindLimit
    BY <1>3, EmptySeq, SameBoyAssumption DEF Ring, IsRing
  <2>4. shown' <= shown
    <3>1. Len(rewindStates) \in DOMAIN rewindStates
      BY <2>3, LenProperties DEF Ring, IsRing
    <3> QED
      BY <2>1, <3>1 DEF Ring, Last
  <2> QED
    BY <1>1, <2>2, <2>3, <2>4 DEF Ring, IsRing
<1> QED
  BY <1>2, <1>3

LEMMA IsSequence ==
  ASSUME NEW S, NEW n \in Nat, NEW f \in [1..n -> S]
  PROVE  f \in Seq(S) /\ Len(f) = n
<1>1. f \in Seq(S)
  BY SeqDef
<1>2. DOMAIN f = 1..n /\ Len(f) \in Nat /\ DOMAIN f = 1..Len(f)
  BY <1>1, LenProperties
<1> QED
  BY <1>1, <1>2

(* readAudio takes all the samples of a tick: no more than two frames.     *)
LEMMA Drained ==
  ASSUME Audio, NEW n \in {1, 2}, Drain(Buffered(n)), rewindActive = FALSE,
         fastForwardActive \in BOOLEAN
  PROVE  Audio'
<1> DEFINE speed == IF fastForwardActive THEN "fast" ELSE "normal"
           made  == [i \in 1..n |-> speed]
           all   == samples \o made
           m     == IF Len(all) < AudioBuffer THEN Len(all) ELSE AudioBuffer
           buffer == Buffered(n)
           k     == IF Len(buffer) < AudioRead THEN Len(buffer) ELSE AudioRead
<1>1. n \in Nat /\ n <= 2 /\ n >= 1 /\ AudioBuffer \in Nat /\ AudioRead \in Nat
      /\ AudioBuffer >= 2 /\ AudioRead >= 2
  BY SameBoyAssumption
<1>2. made \in Seq({speed}) /\ Len(made) = n
  <2>1. made \in [1..n -> {speed}]
    OBVIOUS
  <2> QED
    BY <1>1, <2>1, IsSequence
<1>3. all \in Seq({speed}) /\ Len(all) = n
  <2>1. samples = <<>>
    BY DEF Audio
  <2>2. <<>> \in Seq({speed}) /\ Len(<<>>) = 0
    BY EmptySeq
  <2>3. <<>> \o made \in Seq({speed}) /\ Len(<<>> \o made) = 0 + n
    BY <1>2, <2>2, ConcatProperties
  <2> QED
    BY <1>1, <2>1, <2>3
<1>4. m = n
  BY <1>1, <1>3
<1>5. buffer \in Seq({speed}) /\ Len(buffer) = n
  <2>1. \A i \in 1..n : all[i] \in {speed}
    BY <1>3, LenProperties
  <2>2. /\ SubSeq(all, 1, n) \in Seq({speed})
        /\ Len(SubSeq(all, 1, n)) = IF 1 <= n THEN n - 1 + 1 ELSE 0
    BY <1>1, <2>1, SubSeqProperties
  <2>3. buffer = SubSeq(all, 1, m)
    BY DEF Buffered
  <2> QED
    BY <1>1, <1>4, <2>2, <2>3
<1>6. k = n
  BY <1>1, <1>5
<1>7. samples' = SubSeq(buffer, n + 1, n)
      /\ posted' = IF fastForwardActive THEN <<>> ELSE SubSeq(buffer, 1, n)
  <2> HIDE DEF buffer
  <2>1. samples' = SubSeq(buffer, k + 1, Len(buffer))
        /\ posted' = IF rewindActive \/ fastForwardActive THEN <<>> ELSE SubSeq(buffer, 1, k)
    BY DEF Drain, buffer
  <2> QED
    BY <1>5, <1>6, <2>1
<1>8. samples' = <<>>
  BY <1>1, <1>7, SubSeqEmpty
<1>9. posted' \in Seq({"normal"})
  <2>1. CASE fastForwardActive
    BY <1>7, <2>1, EmptySeq
  <2>2. CASE ~fastForwardActive
    <3> HIDE DEF buffer
    <3>1. \A i \in 1..n : buffer[i] \in {"normal"}
      BY <1>5, <2>2, LenProperties
    <3>2. SubSeq(buffer, 1, n) \in Seq({"normal"})
      BY <1>1, <3>1, SubSeqProperties
    <3> QED
      BY <1>7, <2>2, <3>2
  <2> QED
    BY <2>1, <2>2
<1>10. posted' \in Seq(Speed) /\ \A i \in DOMAIN posted' : posted'[i] = "normal"
  BY <1>9, LenProperties DEF Speed
<1> QED
  BY <1>8, <1>10 DEF Audio

(* While rewinding, nothing is buffered and nothing heard. *)
LEMMA Silent ==
  ASSUME Audio, Drain(<<>>), rewindActive
  PROVE  Audio'
<1>1. Len(<<>>) = 0 /\ <<>> \in Seq(Speed) /\ DOMAIN <<>> = {}
  BY EmptySeq, LenProperties
<1>2. posted' = <<>>
  BY DEF Drain
<1>3. samples' = SubSeq(<<>>, 1, 0)
  <2>1. 0 < AudioRead
    BY SameBoyAssumption
  <2> QED
    BY <1>1, <2>1 DEF Drain
<1>4. samples' = <<>>
  BY <1>3, SubSeqEmpty
<1> QED
  BY <1>1, <1>2, <1>4 DEF Audio

(* The look at the battery, whether or not the game has just written.      *)
LEMMA Looked ==
  ASSUME TypeOK, Saves, hasRom, UNCHANGED hasRom,
         NEW after \in {"none", "clean", "dirty"}, CheckSave(after)
  PROVE  /\ Saves' /\ framesSinceSaveCheck' \in 0..(SaveInterval - 1)
         /\ battery' \in {"none", "clean", "dirty"} /\ unsaved' \in 0..SaveInterval
<1>1. /\ SaveInterval \in Nat \ {0} /\ framesSinceSaveCheck \in 0..(SaveInterval - 1)
      /\ unsaved \in 0..SaveInterval /\ unsaved <= framesSinceSaveCheck
  BY SameBoyAssumption DEF TypeOK, Saves
<1>2. CASE framesSinceSaveCheck + 1 >= SaveInterval
  <2>1. framesSinceSaveCheck' = 0 /\ unsaved' = 0 /\ battery' \in {"none", "clean", "dirty"}
    BY <1>2 DEF CheckSave
  <2> QED
    BY <1>1, <2>1 DEF Saves
<1>3. CASE ~(framesSinceSaveCheck + 1 >= SaveInterval)
  <2>1. /\ framesSinceSaveCheck' = framesSinceSaveCheck + 1 /\ battery' = after
        /\ unsaved' = IF after = "dirty" THEN unsaved + 1 ELSE 0
    BY <1>3 DEF CheckSave
  <2> QED
    BY <1>1, <1>3, <2>1 DEF Saves
<1> QED
  BY <1>2, <1>3

(* runFrame. *)
LEMMA Ticks ==
  ASSUME CoreInv, RunFrame
  PROVE  /\ CoreInv'
         /\ rewindActive => shown' <= shown
         /\ UNCHANGED <<hasRom, status, timers, reply>>
<1>1. TypeOK /\ Clock /\ Ring /\ Audio /\ Saves
  BY DEF CoreInv
<1>2. /\ hasRom /\ UNCHANGED <<hasRom, status, timers, reply, rewindActive, fastForwardActive>>
      /\ battery \in {"none", "clean", "dirty"} /\ fastForwardActive \in BOOLEAN
  BY <1>1 DEF RunFrame, controlVars, modeVars, TypeOK, Clock
<1>3. Clock'
  BY <1>1, <1>2 DEF Clock
<1>4. /\ Saves' /\ framesSinceSaveCheck' \in 0..(SaveInterval - 1)
      /\ battery' \in {"none", "clean", "dirty"} /\ unsaved' \in 0..SaveInterval
  <2>1. PICK after \in {"none", "clean", "dirty"} : CheckSave(after)
    BY <1>2 DEF RunFrame
  <2> QED
    BY <1>1, <1>2, <2>1, Looked
<1>5. /\ Ring' /\ rewindStates' \in Seq(1..MaxFrames)
      /\ framesSinceRewindCapture' \in 0..(CaptureInterval - 1)
      /\ frames' \in 0..MaxFrames /\ shown' \in 0..MaxFrames
      /\ rewindActive => shown' <= shown
      /\ Audio'
  <2>1. CASE rewindActive
    <3>1. Rewind /\ Drain(IF rewindStates = <<>> THEN samples ELSE <<>>)
      BY <2>1 DEF RunFrame
    <3>2. Drain(<<>>)
      BY <1>1, <3>1 DEF Audio
    <3> QED
      BY <1>1, <2>1, <3>1, <3>2, Rewound, Silent DEF TypeOK
  <2>2. CASE ~rewindActive
    <3>1. PICK n \in {1, 2} : Emulate(n) /\ Drain(Buffered(n))
      BY <2>2 DEF RunFrame
    <3>2. rewindActive = FALSE
      BY <1>1, <2>2 DEF TypeOK
    <3> QED
      BY <1>1, <1>2, <2>2, <3>1, <3>2, Emulated, Drained
  <2> QED
    BY <2>1, <2>2
<1>6. TypeOK'
  <2>1. samples' \in Seq(Speed) /\ posted' \in Seq(Speed)
    BY <1>5, EmptySeq DEF Audio
  <2> QED
    BY <1>1, <1>2, <1>4, <1>5, <2>1 DEF TypeOK
<1> QED
  BY <1>2, <1>3, <1>4, <1>5, <1>6 DEF CoreInv

(* A request that leaves the ring, the samples and the battery alone.      *)
LEMMA RequestKeeps ==
  ASSUME CoreInv, UNCHANGED <<ringVars, saveVars, audioVars>>,
         hasRom' \in BOOLEAN, hasRom => hasRom',
         status' \in {"idle", "running", "paused", "stopped"},
         rewindActive' \in BOOLEAN, fastForwardActive' \in BOOLEAN, Clock',
         NEW kind \in Thread!Kind, NEW result \in {"ok", "error"}, Reply(kind, result)
  PROVE  CoreInv'
<1>1. TypeOK /\ Ring /\ Audio /\ Saves
  BY DEF CoreInv
<1>2. /\ UNCHANGED <<rewindStates, framesSinceRewindCapture, frames, shown>>
      /\ UNCHANGED <<framesSinceSaveCheck, battery, unsaved, samples, posted>>
  BY DEF ringVars, saveVars, audioVars
<1>3. Ring'
  BY <1>1, <1>2 DEF Ring, IsRing, Apart
<1>4. Audio' /\ Saves'
  BY <1>1, <1>2 DEF Audio, Saves
<1>5. TypeOK'
  <2>1. reply' \in [kind : Thread!Kind, result : {"ok", "error"}]
    BY DEF Reply
  <2>2. timers' \in {0, 1}
    BY DEF Clock
  <2> QED
    BY <1>1, <1>2, <2>1, <2>2 DEF TypeOK
<1> QED
  BY <1>3, <1>4, <1>5 DEF CoreInv

LEMMA Refusal ==
  ASSUME CoreInv, NEW kind \in Thread!Kind, Refuse(kind)
  PROVE  CoreInv' /\ Thread!Refuse(kind)
<1>1. /\ UNCHANGED <<hasRom, status, timers, rewindActive, fastForwardActive>>
      /\ UNCHANGED <<ringVars, saveVars, audioVars>> /\ Reply(kind, "error")
  BY DEF Refuse, controlVars, modeVars
<1>2. TypeOK /\ Clock
  BY DEF CoreInv
<1>3. Clock'
  BY <1>1, <1>2 DEF Clock
<1>4. CoreInv'
  BY <1>1, <1>2, <1>3, RequestKeeps DEF TypeOK
<1>5. Thread!Refuse(kind)
  BY <1>1 DEF Thread!Refuse, Reply, Thread!Answer
<1> QED
  BY <1>4, <1>5

LEMMA Loads ==
  ASSUME CoreInv, LoadRom
  PROVE  CoreInv' /\ Thread!Load
<1>1. CASE Refuse("load-rom")
  <2>1. "load-rom" \in Thread!Kind
    BY DEF Thread!Kind
  <2> QED
    BY <1>1, <2>1, Refusal DEF Thread!Load, LoadRom
<1>2. CASE ~Refuse("load-rom")
  <2>1. /\ ~hasRom /\ hasRom' = TRUE /\ status = "idle"
        /\ rewindActive' = FALSE /\ fastForwardActive' = FALSE
        /\ rewindStates' = <<>> /\ framesSinceRewindCapture' = 0 /\ framesSinceSaveCheck' = 0
        /\ battery' \in {"none", "clean"} /\ samples' = <<>> /\ Reply("load-rom", "ok")
        /\ UNCHANGED <<status, timers, frames, shown, unsaved, posted>>
    BY <1>2 DEF LoadRom
  <2>2. TypeOK /\ Clock /\ Ring /\ Audio /\ Saves
    BY DEF CoreInv
  <2>3. /\ <<>> \in Seq(1..MaxFrames) /\ <<>> \in Seq(Speed) /\ Len(<<>>) = 0
        /\ DOMAIN <<>> = {}
    BY EmptySeq, LenProperties
  <2>4. Clock' /\ Audio'
    BY <2>1, <2>2, <2>3 DEF Clock, Audio
  <2>5. Ring'
    <3>1. IsRing(rewindStates', frames' - framesSinceRewindCapture')
      BY <2>1, <2>3 DEF IsRing, Apart
    <3> QED
      BY <2>1, <2>2, <2>3, <3>1, SameBoyAssumption DEF Ring
  <2>6. unsaved = 0
    BY <2>1, <2>2 DEF Saves
  <2>7. Saves'
    BY <2>1, <2>6 DEF Saves
  <2>8. TypeOK'
    <3>1. reply' \in [kind : Thread!Kind, result : {"ok", "error"}]
      BY <2>1 DEF Reply, Thread!Kind
    <3>2. /\ framesSinceRewindCapture' \in 0..(CaptureInterval - 1)
          /\ framesSinceSaveCheck' \in 0..(SaveInterval - 1)
      BY <2>1, SameBoyAssumption
    <3> QED
      BY <2>1, <2>2, <2>3, <3>1, <3>2 DEF TypeOK
  <2>9. Thread!Load
    BY <2>1 DEF Thread!Load, Thread!Answer, Reply
  <2> QED
    BY <2>4, <2>5, <2>7, <2>8, <2>9 DEF CoreInv
<1> QED
  BY <1>1, <1>2

(* start, pause, resume, and the speeds: the ring stays. *)
LEMMA Starts ==
  ASSUME CoreInv, Start \/ Resume
  PROVE  CoreInv' /\ (Thread!Transition("start") \/ Thread!Transition("resume"))
<1>1. TypeOK /\ Clock
  BY DEF CoreInv
<1> DEFINE begins(kind) ==
      /\ Reply(kind, "ok") /\ status' = "running" /\ timers' = timers + 1
      /\ UNCHANGED <<hasRom, ringVars, modeVars, saveVars, audioVars>>
<1>2. ASSUME NEW kind \in {"start", "resume"}, begins(kind), hasRom, status # "running",
             status \in Thread!From(kind)
      PROVE  CoreInv' /\ Thread!Transition(kind)
  <2>1. timers' = 1 /\ UNCHANGED <<rewindActive, fastForwardActive>> /\ kind \in Thread!Kind
    BY <1>1, <1>2 DEF Clock, modeVars, Thread!Kind
  <2>2. Clock'
    BY <1>1, <1>2, <2>1 DEF Clock
  <2>3. CoreInv'
    BY <1>1, <1>2, <2>1, <2>2, RequestKeeps DEF TypeOK
  <2>4. Thread!Transition(kind)
    BY <1>2, <2>1 DEF Thread!Transition, Thread!To, Thread!Answer, Reply
  <2> QED
    BY <2>3, <2>4
<1>3. ASSUME NEW kind \in {"start", "resume"}, Refuse(kind),
             status \notin Thread!From(kind) \/ (kind = "start" /\ ~hasRom)
      PROVE  CoreInv' /\ Thread!Transition(kind)
  <2>1. kind \in Thread!Kind
    BY <1>3 DEF Thread!Kind
  <2> QED
    BY <1>3, <2>1, Refusal DEF Thread!Transition
<1>4. Thread!From("start") = {"idle", "stopped"} /\ Thread!From("resume") = {"paused"}
  BY DEF Thread!From
<1>5. CASE Start
  <2>1. CASE hasRom /\ status \in {"idle", "stopped"} /\ begins("start")
    BY <1>2, <1>4, <2>1
  <2>2. CASE ~(hasRom /\ status \in {"idle", "stopped"}) /\ Refuse("start")
    BY <1>3, <1>4, <2>2
  <2> QED
    BY <1>5, <2>1, <2>2 DEF Start
<1>6. CASE Resume
  <2>1. CASE status = "paused" /\ begins("resume")
    BY <1>1, <1>2, <1>4, <2>1 DEF Clock
  <2>2. CASE status # "paused" /\ Refuse("resume")
    BY <1>3, <1>4, <2>2
  <2> QED
    BY <1>6, <2>1, <2>2 DEF Resume
<1> QED
  BY <1>5, <1>6

LEMMA PauseKeeps ==
  ASSUME CoreInv, Pause
  PROVE  CoreInv' /\ Thread!Transition("pause")
<1>1. TypeOK /\ Clock /\ "pause" \in Thread!Kind /\ Thread!From("pause") = {"running"}
  BY DEF CoreInv, Thread!Kind, Thread!From
<1>2. CASE status = "running"
  <2>1. /\ Reply("pause", "ok") /\ timers' = 0 /\ status' = "paused"
        /\ rewindActive' = FALSE /\ fastForwardActive' = FALSE
        /\ UNCHANGED <<hasRom, ringVars, saveVars, audioVars>>
    BY <1>2 DEF Pause, StopClock
  <2>2. Clock'
    BY <1>1, <1>2, <2>1 DEF Clock
  <2>3. CoreInv'
    BY <1>1, <2>1, <2>2, RequestKeeps DEF TypeOK
  <2>4. Thread!Transition("pause")
    BY <1>1, <1>2, <2>1 DEF Thread!Transition, Thread!To, Thread!Answer, Reply
  <2> QED
    BY <2>3, <2>4
<1>3. CASE status # "running"
  <2>1. Refuse("pause")
    BY <1>3 DEF Pause
  <2> QED
    BY <1>1, <1>3, <2>1, Refusal DEF Thread!Transition
<1> QED
  BY <1>2, <1>3

LEMMA Stops ==
  ASSUME CoreInv, Stop
  PROVE  CoreInv' /\ Thread!Transition("stop")
<1>1. /\ TypeOK /\ Clock /\ Ring /\ Audio /\ Saves /\ "stop" \in Thread!Kind
      /\ status \in Thread!From("stop")
  BY DEF CoreInv, Thread!Kind, Thread!From, TypeOK
<1>2. /\ Reply("stop", "ok") /\ timers' = 0 /\ status' = "stopped"
      /\ rewindActive' = FALSE /\ fastForwardActive' = FALSE
      /\ UNCHANGED <<hasRom, rewindStates, framesSinceRewindCapture, frames, shown>>
      /\ UNCHANGED <<framesSinceSaveCheck, samples, posted>>
      /\ battery' \in {"none", "clean", "dirty"} /\ unsaved' \in {0, unsaved}
  BY <1>1 DEF Stop, StopClock, BatteryRead, ringVars, audioVars, TypeOK
<1>3. Clock' /\ Audio'
  BY <1>1, <1>2 DEF Clock, Audio
<1>4. Ring'
  BY <1>1, <1>2 DEF Ring, IsRing, Apart
<1>5. unsaved' \in 0..SaveInterval /\ unsaved' <= framesSinceSaveCheck' /\ unsaved' <= unsaved
  BY <1>1, <1>2, SameBoyAssumption DEF TypeOK, Saves
<1>6. Saves'
  BY <1>1, <1>2, <1>5 DEF Saves
<1>7. TypeOK'
  <2>1. reply' \in [kind : Thread!Kind, result : {"ok", "error"}]
    BY <1>1, <1>2 DEF Reply
  <2> QED
    BY <1>1, <1>2, <1>5, <2>1 DEF TypeOK
<1>8. Thread!Transition("stop")
  BY <1>1, <1>2 DEF Thread!Transition, Thread!To, Thread!Answer, Reply
<1> QED
  BY <1>3, <1>4, <1>6, <1>7, <1>8 DEF CoreInv

LEMMA Captures ==
  ASSUME CoreInv, CaptureSaveState
  PROVE  CoreInv' /\ Thread!State("capture-save-state")
<1>1. TypeOK /\ Clock /\ "capture-save-state" \in Thread!Kind
  BY DEF CoreInv, Thread!Kind
<1>2. CASE Refuse("capture-save-state")
  BY <1>1, <1>2, Refusal DEF Thread!State
<1>3. CASE ~Refuse("capture-save-state")
  <2>1. /\ Active /\ Reply("capture-save-state", "ok")
        /\ UNCHANGED <<hasRom, status, timers, rewindActive, fastForwardActive>>
        /\ UNCHANGED <<ringVars, saveVars, audioVars>>
    BY <1>3 DEF CaptureSaveState, controlVars, modeVars
  <2>2. Clock'
    BY <1>1, <2>1 DEF Clock
  <2>3. CoreInv'
    BY <1>1, <2>1, <2>2, RequestKeeps DEF TypeOK
  <2>4. Thread!State("capture-save-state")
    BY <2>1 DEF Thread!State, Thread!Answer, Active, Reply
  <2> QED
    BY <2>3, <2>4
<1> QED
  BY <1>2, <1>3

(* A state of another moment is newer than all of the ring. *)
LEMMA Restores ==
  ASSUME CoreInv, RestoreSaveState
  PROVE  CoreInv' /\ Thread!State("restore-save-state")
<1>1. TypeOK /\ Clock /\ Ring /\ Audio /\ Saves /\ "restore-save-state" \in Thread!Kind
  BY DEF CoreInv, Thread!Kind
<1>2. CASE Refuse("restore-save-state")
  BY <1>1, <1>2, Refusal DEF Thread!State
<1>3. CASE ~Refuse("restore-save-state")
  <2>1. /\ Active /\ Reply("restore-save-state", "ok") /\ shown' = frames /\ samples' = <<>>
        /\ UNCHANGED <<hasRom, status, timers, rewindActive, fastForwardActive>>
        /\ UNCHANGED <<rewindStates, framesSinceRewindCapture, frames, posted>>
        /\ UNCHANGED <<framesSinceSaveCheck, battery, unsaved>>
    BY <1>3 DEF RestoreSaveState, controlVars, modeVars, saveVars
  <2>2. Clock' /\ Audio' /\ Saves'
    BY <1>1, <2>1 DEF Clock, Audio, Saves
  <2>3. Ring'
    <3>1. IsRing(rewindStates', frames' - framesSinceRewindCapture')
      BY <1>1, <2>1 DEF Ring
    <3>2. shown \in Nat /\ frames \in Nat /\ shown <= frames
      BY <1>1 DEF Ring, TypeOK
    <3>3. \A i \in DOMAIN rewindStates : rewindStates[i] \in 1..MaxFrames /\ rewindStates[i] <= shown
      BY <1>1, LenProperties DEF Ring, IsRing
    <3>4. \A i \in DOMAIN rewindStates' : rewindStates'[i] <= shown'
      BY <2>1, <3>2, <3>3
    <3> QED
      BY <1>1, <2>1, <3>1, <3>2, <3>4 DEF Ring
  <2>4. TypeOK'
    <3>1. reply' \in [kind : Thread!Kind, result : {"ok", "error"}]
      BY <1>1, <2>1 DEF Reply
    <3>2. samples' \in Seq(Speed)
      BY <2>1, EmptySeq
    <3> QED
      BY <1>1, <2>1, <3>1, <3>2 DEF TypeOK
  <2>5. Thread!State("restore-save-state")
    BY <2>1 DEF Thread!State, Thread!Answer, Active, Reply
  <2> QED
    BY <2>2, <2>3, <2>4, <2>5 DEF CoreInv
<1> QED
  BY <1>2, <1>3

LEMMA Speeds ==
  ASSUME CoreInv, NEW on \in BOOLEAN, SetRewindActive(on) \/ SetFastForwardActive(on)
  PROVE  /\ CoreInv'
         /\ Thread!Speed("set-rewind-active") \/ Thread!Speed("set-fast-forward-active")
<1>1. /\ TypeOK /\ Clock
      /\ "set-rewind-active" \in Thread!Kind /\ "set-fast-forward-active" \in Thread!Kind
  BY DEF CoreInv, Thread!Kind
<1>2. ASSUME NEW kind \in {"set-rewind-active", "set-fast-forward-active"},
             Reply(kind, "ok"), status = "running",
             rewindActive' \in BOOLEAN, fastForwardActive' \in BOOLEAN,
             ~(rewindActive' /\ fastForwardActive'),
             UNCHANGED <<controlVars, ringVars, saveVars, audioVars>>
      PROVE  CoreInv' /\ Thread!Speed(kind)
  <2>1. UNCHANGED <<hasRom, status, timers>> /\ kind \in Thread!Kind
    BY <1>1, <1>2 DEF controlVars
  <2>2. Clock'
    BY <1>1, <1>2, <2>1 DEF Clock
  <2>3. CoreInv'
    BY <1>1, <1>2, <2>1, <2>2, RequestKeeps DEF TypeOK
  <2>4. Thread!Speed(kind)
    BY <1>2, <2>1 DEF Thread!Speed, Thread!Answer, Reply
  <2> QED
    BY <2>3, <2>4
<1>3. ASSUME NEW kind \in {"set-rewind-active", "set-fast-forward-active"},
             status # "running", Refuse(kind)
      PROVE  CoreInv' /\ Thread!Speed(kind)
  <2>1. kind \in Thread!Kind
    BY <1>1, <1>3
  <2> QED
    BY <1>3, <2>1, Refusal DEF Thread!Speed
<1>4. rewindActive \in BOOLEAN /\ fastForwardActive \in BOOLEAN
  BY <1>1 DEF TypeOK
<1>5. CASE SetRewindActive(on)
  <2>1. CASE status = "running"
    <3>1. /\ Reply("set-rewind-active", "ok") /\ rewindActive' = on
          /\ fastForwardActive' = (fastForwardActive /\ ~on)
          /\ UNCHANGED <<controlVars, ringVars, saveVars, audioVars>>
      BY <1>5, <2>1 DEF SetRewindActive
    <3>2. /\ rewindActive' \in BOOLEAN /\ fastForwardActive' \in BOOLEAN
          /\ ~(rewindActive' /\ fastForwardActive')
      BY <1>4, <3>1
    <3> QED
      BY <1>2, <2>1, <3>1, <3>2
  <2>2. CASE status # "running"
    BY <1>3, <1>5, <2>2 DEF SetRewindActive
  <2> QED
    BY <2>1, <2>2
<1>6. CASE SetFastForwardActive(on)
  <2>1. CASE status = "running"
    <3>1. /\ Reply("set-fast-forward-active", "ok") /\ fastForwardActive' = on
          /\ rewindActive' = (rewindActive /\ ~on)
          /\ UNCHANGED <<controlVars, ringVars, saveVars, audioVars>>
      BY <1>6, <2>1 DEF SetFastForwardActive
    <3>2. /\ rewindActive' \in BOOLEAN /\ fastForwardActive' \in BOOLEAN
          /\ ~(rewindActive' /\ fastForwardActive')
      BY <1>4, <3>1
    <3> QED
      BY <1>2, <2>1, <3>1, <3>2
  <2>2. CASE status # "running"
    BY <1>3, <1>6, <2>2 DEF SetFastForwardActive
  <2> QED
    BY <2>1, <2>2
<1> QED
  BY <1>5, <1>6

(* Every step of the thread keeps the invariant, is one of EmulatorThread, *)
(* and goes back while rewind is held.                                     *)
LEMMA CoreStep ==
  ASSUME CoreInv, [Next]_sameBoyVars
  PROVE  /\ CoreInv' /\ [Thread!Next]_(Thread!threadVars)
         /\ rewindActive /\ RunFrame => shown' <= shown
<1>1. CASE RunFrame
  BY <1>1, Ticks DEF Thread!threadVars
<1>2. CASE LoadRom
  <2>1. CoreInv' /\ Thread!Next
    BY <1>2, Loads DEF Thread!Next
  <2> QED
    BY <2>1, Ticks
<1>3. CASE Start \/ Resume \/ Pause \/ Stop
  <2>1. CoreInv' /\ \E kind \in {"start", "pause", "resume", "stop"} : Thread!Transition(kind)
    BY <1>3, Starts, PauseKeeps, Stops
  <2> QED
    BY <2>1, Ticks DEF Thread!Next
<1>4. CASE CaptureSaveState \/ RestoreSaveState
  <2>1. /\ CoreInv'
        /\ \E kind \in {"capture-save-state", "restore-save-state"} : Thread!State(kind)
    BY <1>4, Captures, Restores
  <2> QED
    BY <2>1, Ticks DEF Thread!Next
<1>5. CASE \E on \in BOOLEAN : SetRewindActive(on) \/ SetFastForwardActive(on)
  <2>1. /\ CoreInv'
        /\ \E kind \in {"set-rewind-active", "set-fast-forward-active"} : Thread!Speed(kind)
    BY <1>5, Speeds
  <2> QED
    BY <2>1, Ticks DEF Thread!Next
<1>6. CASE UNCHANGED sameBoyVars
  <2>1. /\ UNCHANGED <<hasRom, status, timers, reply, rewindActive, fastForwardActive>>
        /\ UNCHANGED <<rewindStates, framesSinceRewindCapture, frames, shown>>
        /\ UNCHANGED <<framesSinceSaveCheck, battery, unsaved, samples, posted>>
    BY <1>6 DEF sameBoyVars, controlVars, ringVars, modeVars, saveVars, audioVars
  <2>2. CoreInv'
    BY <2>1 DEF CoreInv, TypeOK, Clock, Ring, IsRing, Apart, Audio, Saves
  <2> QED
    BY <2>1, <2>2, Ticks DEF Thread!threadVars
<1> QED
  BY <1>1, <1>2, <1>3, <1>4, <1>5, <1>6 DEF Next

LEMMA CoreInvariance == Spec => []CoreInv
<1>1. CoreInv /\ [Next]_sameBoyVars => CoreInv'
  BY CoreStep
<1> QED
  BY <1>1, CoreInit, PTL DEF Spec

(* Whatever is rewound, sped up, paused or restored, the ring of the       *)
(* SameBoy thread holds states of the recent past in their order, at least *)
(* CaptureInterval frames apart, and never more than RewindLimit of them.  *)
THEOREM RingIsInOrder == Spec => []RingIsHistory
<1>1. CoreInv => RingIsHistory
  <2> SUFFICES ASSUME CoreInv PROVE RingIsHistory
    OBVIOUS
  <2>1. Ring /\ TypeOK /\ Len(rewindStates) <= RewindLimit /\ Apart(rewindStates)
    BY DEF CoreInv, Ring, IsRing
  <2>2. frames \in Int /\ framesSinceRewindCapture \in Int
    BY <2>1, Numbers DEF TypeOK
  <2>3. ASSUME NEW i \in DOMAIN rewindStates
        PROVE  rewindStates[i] + framesSinceRewindCapture <= frames
    <3>1. rewindStates[i] \in 1..MaxFrames
      BY <2>1, LenProperties DEF Ring, IsRing
    <3>2. rewindStates[i] <= frames - framesSinceRewindCapture
      BY <2>1 DEF Ring, IsRing
    <3> QED
      BY <2>2, <3>1, <3>2
  <2> QED
    BY <2>1, <2>3 DEF RingIsHistory, Apart
<1> QED
  BY <1>1, CoreInvariance, PTL

(* While rewind is held, no tick shows a later moment of the game than the *)
(* one that is shown.                                                      *)
THEOREM RewindOnlyGoesBack == Spec => RewindGoesBack
<1>1. CoreInv /\ [Next]_sameBoyVars => [rewindActive /\ RunFrame => shown' <= shown]_sameBoyVars
  BY CoreStep
<1> QED
  BY <1>1, CoreInvariance, PTL DEF Spec, RewindGoesBack

(* However the player holds and releases rewind and fast-forward, around   *)
(* pauses and stops: no command is left on, no sample of a fast-forwarded  *)
(* frame is heard, none is left in the buffer, and what the game saved is  *)
(* posted before the interval is over.                                     *)
THEOREM SpeedsLeaveNoTrace == Spec => []SpeedLeavesNoTrace
<1>1. CoreInv => SpeedLeavesNoTrace
  <2> SUFFICES ASSUME CoreInv PROVE SpeedLeavesNoTrace
    OBVIOUS
  <2>1. Clock /\ Audio
    BY DEF CoreInv
  <2>2. unsaved <= framesSinceSaveCheck /\ unsaved \in 0..SaveInterval
        /\ framesSinceSaveCheck \in 0..(SaveInterval - 1)
    BY DEF CoreInv, Saves, TypeOK
  <2>3. unsaved < SaveInterval
    BY <2>2, SameBoyAssumption
  <2> QED
    BY <2>1, <2>3 DEF SpeedLeavesNoTrace, FlushedInTime, Clock, Audio
<1> QED
  BY <1>1, CoreInvariance, PTL

LEMMA SameBoyImplementsThread == Spec => ImplementsThread
<1>1. Init => Thread!Init
  BY DEF Init, Thread!Init, Thread!NoAnswer, Thread!Answer
<1>2. CoreInv /\ [Next]_sameBoyVars => [Thread!Next]_(Thread!threadVars)
  BY CoreStep
<1> QED
  BY <1>1, <1>2, CoreInvariance, PTL DEF Spec, ImplementsThread, Thread!Spec
-----------------------------------------------------------------------------
(***************************************************************************)
(* The thread of mGBA.                                                     *)
(***************************************************************************)
MgbaClock == mgbaTimers = IF mgbaStatus = "running" THEN 1 ELSE 0
MgbaInv == Mgba!TypeOK /\ MgbaClock

LEMMA MgbaInit == Mgba!Init => MgbaInv /\ Mgba!Thread!Init
<1> SUFFICES ASSUME Mgba!Init PROVE MgbaInv /\ Mgba!Thread!Init
  OBVIOUS
<1>1. mgbaReply = Mgba!Thread!NoAnswer
  BY DEF Mgba!Init, Mgba!Thread!NoAnswer, Mgba!Thread!Answer
<1>2. Mgba!TypeOK /\ MgbaClock
  <2>1. /\ mgbaHasRom = FALSE /\ mgbaStatus = "idle" /\ mgbaTimers = 0 /\ saveIn = 0
        /\ SaveInterval \in Nat \ {0}
    BY SameBoyAssumption DEF Mgba!Init
  <2>2. saveIn \in 0..SaveInterval /\ MgbaClock
    BY <2>1 DEF MgbaClock
  <2>3. mgbaReply \in [kind : Mgba!Thread!Kind, result : {"ok", "error"}]
                       \union {Mgba!Thread!NoAnswer}
    BY <1>1
  <2> QED
    BY <2>1, <2>2, <2>3 DEF Mgba!TypeOK
<1> QED
  BY <1>1, <1>2 DEF Mgba!Init, MgbaInv, Mgba!Thread!Init

LEMMA MgbaRefusal ==
  ASSUME MgbaInv, NEW kind \in Mgba!Thread!Kind, Mgba!Refuse(kind)
  PROVE  MgbaInv' /\ Mgba!Thread!Refuse(kind)
<1>1. /\ UNCHANGED <<mgbaHasRom, mgbaStatus, mgbaTimers, saveIn>>
      /\ mgbaReply' = [kind |-> kind, result |-> "error"]
  BY DEF Mgba!Refuse, Mgba!Reply
<1>2. MgbaInv'
  BY <1>1 DEF MgbaInv, MgbaClock, Mgba!TypeOK
<1> QED
  BY <1>1, <1>2 DEF Mgba!Thread!Refuse, Mgba!Thread!Answer

(* An answered request, and what it makes of the clock. *)
LEMMA MgbaAnswers ==
  ASSUME MgbaInv, mgbaHasRom' \in BOOLEAN,
         mgbaStatus' \in {"idle", "running", "paused", "stopped"}, MgbaClock',
         saveIn' \in 0..SaveInterval,
         NEW kind \in Mgba!Thread!Kind, NEW result \in {"ok", "error"},
         Mgba!Reply(kind, result)
  PROVE  MgbaInv' /\ mgbaReply' = Mgba!Thread!Answer(kind, result)
<1>1. mgbaReply' = [kind |-> kind, result |-> result]
  BY DEF Mgba!Reply
<1>2. mgbaTimers' \in {0, 1}
  BY DEF MgbaClock
<1> QED
  BY <1>1, <1>2 DEF MgbaInv, Mgba!TypeOK, Mgba!Thread!Answer

(* start and resume of mGBA. *)
LEMMA MgbaRuns ==
  ASSUME MgbaInv, NEW kind \in {"start", "resume"}, Mgba!Run, Mgba!Reply(kind, "ok"),
         mgbaStatus \in Mgba!Thread!From(kind), mgbaStatus # "running", mgbaHasRom \/ kind = "resume"
  PROVE  MgbaInv' /\ Mgba!Thread!Transition(kind)
<1>1. /\ mgbaStatus' = "running" /\ mgbaTimers' = 1 /\ saveIn' = SaveInterval
      /\ UNCHANGED mgbaHasRom /\ mgbaHasRom \in BOOLEAN /\ kind \in Mgba!Thread!Kind
  BY DEF Mgba!Run, MgbaInv, MgbaClock, Mgba!TypeOK, Mgba!Thread!Kind
<1>2. saveIn' \in 0..SaveInterval /\ MgbaClock'
  BY <1>1, SameBoyAssumption DEF MgbaClock
<1>3. MgbaInv' /\ mgbaReply' = Mgba!Thread!Answer(kind, "ok")
  BY <1>1, <1>2, MgbaAnswers
<1> QED
  BY <1>1, <1>3 DEF Mgba!Thread!Transition, Mgba!Thread!To

LEMMA MgbaNext ==
  ASSUME MgbaInv, Mgba!Next
  PROVE  MgbaInv' /\ [Mgba!Thread!Next]_(Mgba!Thread!threadVars)
<1>1. Mgba!TypeOK /\ MgbaClock
  BY DEF MgbaInv
<1>2. /\ Mgba!Thread!From("start") = {"idle", "stopped"}
      /\ Mgba!Thread!From("pause") = {"running"} /\ Mgba!Thread!From("resume") = {"paused"}
      /\ mgbaStatus \in Mgba!Thread!From("stop")
  BY <1>1 DEF Mgba!Thread!From, Mgba!TypeOK
<1>3. Mgba!Thread!Kind = {"load-rom", "start", "pause", "resume", "stop", "capture-save-state",
        "restore-save-state", "set-rewind-active", "set-fast-forward-active"}
  BY DEF Mgba!Thread!Kind
<1>4. CASE Mgba!LoadRom
  <2>1. /\ ~mgbaHasRom /\ mgbaStatus = "idle" /\ mgbaTimers' = 0 /\ mgbaTimers = 0
        /\ UNCHANGED <<mgbaStatus, saveIn>> /\ saveIn \in 0..SaveInterval
        /\ MgbaClock'
    BY <1>1, <1>4 DEF Mgba!LoadRom, MgbaClock, Mgba!TypeOK
  <2>2. CASE Mgba!Reply("load-rom", "ok") /\ mgbaHasRom' = TRUE
    <3>1. MgbaInv' /\ mgbaReply' = Mgba!Thread!Answer("load-rom", "ok")
      BY <1>3, <2>1, <2>2, MgbaAnswers
    <3>2. Mgba!Thread!Load
      BY <2>1, <2>2, <3>1 DEF Mgba!Thread!Load
    <3> QED
      BY <3>1, <3>2 DEF Mgba!Thread!Next
  <2>3. CASE Mgba!Reply("load-rom", "error") /\ mgbaHasRom' = FALSE
    <3>1. MgbaInv' /\ mgbaReply' = Mgba!Thread!Answer("load-rom", "error")
      BY <1>3, <2>1, <2>3, MgbaAnswers
    <3>2. mgbaHasRom = FALSE
      BY <1>1, <2>1 DEF Mgba!TypeOK
    <3>3. Mgba!Thread!Load
      BY <2>1, <2>3, <3>1, <3>2 DEF Mgba!Thread!Load, Mgba!Thread!Refuse
    <3> QED
      BY <3>1, <3>3 DEF Mgba!Thread!Next
  <2> QED
    BY <1>4, <2>2, <2>3 DEF Mgba!LoadRom
<1>5. CASE Mgba!Start
  <2>1. MgbaInv' /\ Mgba!Thread!Transition("start")
    <3>1. CASE mgbaHasRom /\ mgbaStatus \in {"idle", "stopped"} /\ Mgba!Run /\ Mgba!Reply("start", "ok")
      BY <1>2, <3>1, MgbaRuns
    <3>2. CASE ~(mgbaHasRom /\ mgbaStatus \in {"idle", "stopped"}) /\ Mgba!Refuse("start")
      BY <1>2, <1>3, <3>2, MgbaRefusal DEF Mgba!Thread!Transition
    <3> QED
      BY <1>5, <3>1, <3>2 DEF Mgba!Start
  <2> QED
    BY <2>1 DEF Mgba!Thread!Next
<1>6. CASE Mgba!Resume
  <2>1. MgbaInv' /\ Mgba!Thread!Transition("resume")
    <3>1. CASE mgbaStatus = "paused" /\ Mgba!Run /\ Mgba!Reply("resume", "ok")
      BY <1>2, <3>1, MgbaRuns
    <3>2. CASE mgbaStatus # "paused" /\ Mgba!Refuse("resume")
      BY <1>2, <1>3, <3>2, MgbaRefusal DEF Mgba!Thread!Transition
    <3> QED
      BY <1>6, <3>1, <3>2 DEF Mgba!Resume
  <2> QED
    BY <2>1 DEF Mgba!Thread!Next
<1>7. CASE Mgba!Pause
  <2>1. CASE mgbaStatus = "running" /\ Mgba!Reply("pause", "ok")
    <3>1. /\ mgbaTimers' = 0 /\ mgbaStatus' = "paused" /\ UNCHANGED <<mgbaHasRom, saveIn>>
          /\ mgbaHasRom \in BOOLEAN /\ saveIn \in 0..SaveInterval /\ MgbaClock'
      BY <1>1, <1>3, <1>7, <2>1 DEF Mgba!Pause, Mgba!Refuse, MgbaClock, Mgba!TypeOK
    <3>2. MgbaInv' /\ mgbaReply' = Mgba!Thread!Answer("pause", "ok")
      BY <1>3, <2>1, <3>1, MgbaAnswers
    <3>3. Mgba!Thread!Transition("pause")
      BY <1>2, <2>1, <3>1, <3>2 DEF Mgba!Thread!Transition, Mgba!Thread!To
    <3> QED
      BY <3>2, <3>3 DEF Mgba!Thread!Next
  <2>2. CASE mgbaStatus # "running" /\ Mgba!Refuse("pause")
    <3>1. MgbaInv' /\ Mgba!Thread!Transition("pause")
      BY <1>2, <1>3, <2>2, MgbaRefusal DEF Mgba!Thread!Transition
    <3> QED
      BY <3>1 DEF Mgba!Thread!Next
  <2> QED
    BY <1>7, <2>1, <2>2 DEF Mgba!Pause
<1>8. CASE Mgba!Stop
  <2>1. PICK result \in {"ok", "error"} : Mgba!Reply("stop", result)
    BY <1>8 DEF Mgba!Stop
  <2>2. /\ mgbaTimers' = 0 /\ mgbaStatus' = "stopped" /\ UNCHANGED <<mgbaHasRom, saveIn>>
        /\ mgbaHasRom \in BOOLEAN /\ saveIn \in 0..SaveInterval /\ MgbaClock'
    BY <1>1, <1>8 DEF Mgba!Stop, MgbaClock, Mgba!TypeOK
  <2>3. MgbaInv' /\ mgbaReply' = Mgba!Thread!Answer("stop", result)
    BY <1>3, <2>1, <2>2, MgbaAnswers
  <2>4. Mgba!Thread!Transition("stop")
    BY <1>2, <2>2, <2>3 DEF Mgba!Thread!Transition, Mgba!Thread!To
  <2> QED
    BY <2>3, <2>4 DEF Mgba!Thread!Next
<1>9. ASSUME NEW kind \in {"capture-save-state", "restore-save-state"}, Mgba!State(kind)
      PROVE  MgbaInv' /\ Mgba!Thread!Next
  <2>1. MgbaInv' /\ Mgba!Thread!State(kind)
    <3>1. CASE Mgba!Refuse(kind)
      BY <1>3, <3>1, MgbaRefusal DEF Mgba!Thread!State
    <3>2. CASE ~Mgba!Refuse(kind)
      <4>1. /\ mgbaHasRom /\ mgbaStatus \in {"running", "paused"} /\ Mgba!Reply(kind, "ok")
            /\ UNCHANGED <<mgbaHasRom, mgbaStatus, mgbaTimers, saveIn>>
            /\ mgbaHasRom \in BOOLEAN /\ saveIn \in 0..SaveInterval /\ MgbaClock'
        BY <1>1, <1>9, <3>2 DEF Mgba!State, MgbaClock, Mgba!TypeOK
      <4>2. MgbaInv' /\ mgbaReply' = Mgba!Thread!Answer(kind, "ok")
        BY <1>3, <4>1, MgbaAnswers
      <4> QED
        BY <4>1, <4>2 DEF Mgba!Thread!State
    <3> QED
      BY <3>1, <3>2
  <2> QED
    BY <2>1 DEF Mgba!Thread!Next
<1>10. ASSUME NEW kind \in {"set-rewind-active", "set-fast-forward-active"}, Mgba!Refuse(kind)
       PROVE  MgbaInv' /\ Mgba!Thread!Next
  <2>1. MgbaInv' /\ Mgba!Thread!Refuse(kind)
    BY <1>3, <1>10, MgbaRefusal
  <2> QED
    BY <2>1 DEF Mgba!Thread!Speed, Mgba!Thread!Next
<1>11. CASE Mgba!RunFrame
  <2>1. /\ UNCHANGED <<mgbaHasRom, mgbaStatus, mgbaTimers, mgbaReply>>
        /\ saveIn' = IF saveIn > 1 THEN saveIn - 1 ELSE SaveInterval
    BY <1>11 DEF Mgba!RunFrame
  <2>2. saveIn' \in 0..SaveInterval
    BY <1>1, <2>1, SameBoyAssumption DEF Mgba!TypeOK
  <2>3. MgbaInv'
    BY <1>1, <2>1, <2>2 DEF MgbaInv, MgbaClock, Mgba!TypeOK
  <2> QED
    BY <2>1, <2>3 DEF Mgba!Thread!threadVars
<1> QED
  BY <1>4, <1>5, <1>6, <1>7, <1>8, <1>9, <1>10, <1>11 DEF Mgba!Next
-----------------------------------------------------------------------------
LEMMA PartsStep ==
  ASSUME [PartsNext]_partsVars
  PROVE  [Next]_sameBoyVars /\ [Mgba!Next]_mgbaVars
  BY DEF PartsNext, partsVars

LEMMA MgbaStep ==
  ASSUME MgbaInv, [PartsNext]_partsVars
  PROVE  MgbaInv' /\ [Mgba!Thread!Next]_(Mgba!Thread!threadVars)
<1>1. CASE Mgba!Next
  BY <1>1, MgbaNext
<1>2. CASE UNCHANGED mgbaVars
  <2>1. UNCHANGED <<mgbaHasRom, mgbaStatus, mgbaTimers, mgbaReply, saveIn>>
    BY <1>2 DEF mgbaVars
  <2> QED
    BY <2>1 DEF MgbaInv, MgbaClock, Mgba!TypeOK, Mgba!Thread!threadVars
<1> QED
  BY <1>1, <1>2, PartsStep

LEMMA MgbaInvariance == PartsSpec => []MgbaInv
<1>1. PartsInit => MgbaInv
  BY MgbaInit DEF PartsInit
<1>2. MgbaInv /\ [PartsNext]_partsVars => MgbaInv'
  BY MgbaStep
<1> QED
  BY <1>1, <1>2, PTL DEF PartsSpec

LEMMA MgbaImplementsThread == PartsSpec => Mgba!ImplementsThread
<1>1. PartsInit => Mgba!Thread!Init
  BY MgbaInit DEF PartsInit
<1>2. MgbaInv /\ [PartsNext]_partsVars => [Mgba!Thread!Next]_(Mgba!Thread!threadVars)
  BY MgbaStep
<1> QED
  BY <1>1, <1>2, MgbaInvariance, PTL DEF PartsSpec, Mgba!ImplementsThread, Mgba!Thread!Spec

(* The worker threads of both cores are threads as the session objects     *)
(* expect them: requests are answered in their order by the rules of the   *)
(* SDK, and frames run, one timer at a time, exactly while a session is    *)
(* running.                                                                *)
THEOREM ThreadsKeepTheirPromise == PartsSpec => ThreadsAreAsAssumed
<1>1. PartsInit => Init
  BY DEF PartsInit
<1>2. [PartsNext]_partsVars => [Next]_sameBoyVars
  BY PartsStep
<1>3. PartsSpec => Spec
  BY <1>1, <1>2, PTL DEF PartsSpec, Spec
<1> QED
  BY <1>3, SameBoyImplementsThread, MgbaImplementsThread DEF ThreadsAreAsAssumed
-----------------------------------------------------------------------------
(***************************************************************************)
(* FramePacing keeps its promises for every frame duration, every catch-up *)
(* limit and every imprecision of the timers.  What makes them inductive   *)
(* is the distance to the next planned frame: what the balances lack, the  *)
(* wait for the next timer makes up for.                                   *)
(***************************************************************************)
(* How late a frame may be before the grid moves. *)
Limit == CatchUp * Frame

(* How far away the next frame is; negative when it is late. *)
Distance == nextFrameAt - now

(* The distance, as far as scheduleFrame will make up for a late frame. *)
Recoverable ==
  IF Distance < -Limit THEN -Limit ELSE Distance

(* The next frame is at most one frame away, but for an early timer. *)
OneFrameAhead == active => Distance <= Frame + Early

(* What is left of the running time is at least what the next frame needs. *)
CreditSuffices ==
  /\ active => credit + Distance >= Frame + Early
  /\ ~active => credit >= 0

(* A window owes no more than the late frames that can be made up for. *)
BurstIsOwed ==
  /\ active => balance + allowance + Recoverable + Limit >= 0
  /\ ~active =>
       balance + allowance + Limit + Frame + Early >= 0

(* Without stalls and pauses, what a window has left is being waited for. *)
SteadyIsOnTime ==
  steady => active /\ balance + Distance <= Frame + Early

PacingInv ==
  PacingTypeOK /\ OneFrameAhead /\ CreditSuffices /\ BurstIsOwed /\ SteadyIsOnTime
-----------------------------------------------------------------------------
(* The limits of scheduleFrame are numbers, and what they add up to. *)
LEMMA Limits == Limit \in Nat /\ Frame \in Nat /\ Frame > 0 /\ Early \in Nat
BY PacingAssumption DEF Limit

(* The products in the properties, written with the limit. *)
LEMMA LimitIs ==
  /\ CatchUp * Frame = Limit
  /\ (CatchUp + 1) * Frame = Limit + Frame
<1>1. Frame \in Nat /\ CatchUp \in Nat
  BY PacingAssumption
<1> QED BY <1>1 DEF Limit

(* Before anything ran the invariant holds. *)
LEMMA PacingInitially == PacingInit => PacingInv
<1> SUFFICES ASSUME PacingInit PROVE PacingInv
  OBVIOUS
<1>1. /\ active = FALSE /\ steady = FALSE /\ now = 0
      /\ nextFrameAt = Undefined /\ runs = 0
      /\ credit = 0 /\ balance = 0 /\ allowance = 0
  BY DEF PacingInit
<1>2. 0 \in 0..MaxRuns
  BY PacingAssumption
<1>3. nextFrameAt \in Nat \union {Undefined}
  BY <1>1
<1>4. active => nextFrameAt # Undefined
  BY <1>1
<1>5. active \in BOOLEAN /\ steady \in BOOLEAN
  BY <1>1
<1>6. /\ now \in Nat
      /\ credit \in Int /\ balance \in Int /\ allowance \in Nat
  BY <1>1
<1>7. PacingTypeOK
  BY <1>1, <1>2, <1>3, <1>4, <1>5, <1>6 DEF PacingTypeOK
<1>8. OneFrameAhead /\ CreditSuffices /\ SteadyIsOnTime
  BY <1>1 DEF OneFrameAhead, CreditSuffices, SteadyIsOnTime
<1>9. BurstIsOwed
  BY <1>1, Limits DEF BurstIsOwed
<1> QED BY <1>7, <1>8, <1>9 DEF PacingInv

(* scheduleFrame plans at most one frame ahead of what was planned, and    *)
(* moves the grid to the present after a stall, or when there was no plan. *)
LEMMA SlotIs ==
  ASSUME PacingTypeOK
  PROVE  /\ Slot(Undefined) = now + Frame
         /\ active /\ ~Stalled(nextFrameAt) =>
              Slot(nextFrameAt) = nextFrameAt + Frame
         /\ Stalled(nextFrameAt) => Slot(nextFrameAt) = now + Frame
         /\ Slot(nextFrameAt) \in Nat
BY Limits, LimitIs DEF PacingTypeOK, Slot, Stalled, Undefined

(* Every step keeps the invariant. *)
LEMMA PacingStep == PacingInv /\ [PacingNext]_pacingVars => PacingInv'
<1> SUFFICES ASSUME PacingInv, [PacingNext]_pacingVars
             PROVE  PacingInv'
  OBVIOUS
<1> USE Limits DEF PacingInv
<1>1. CASE Run
  <2>1. /\ ~active /\ active' /\ now' = now /\ balance' = balance
        /\ nextFrameAt' = now + Frame
        /\ credit' = credit + Early /\ allowance' = allowance + Early
        /\ runs' = runs + 1 /\ runs < MaxRuns /\ steady' = steady
    BY <1>1, SlotIs DEF Run
  <2>8. now + Frame \in Nat /\ now + Frame # Undefined
    BY DEF PacingTypeOK, Undefined
  <2>9. runs + 1 \in 0..MaxRuns
    BY <2>1, PacingAssumption DEF PacingTypeOK
  <2>2. PacingTypeOK'
    BY <2>1, <2>8, <2>9 DEF PacingTypeOK
  <2>3. Distance' = Frame
    BY <2>1 DEF PacingTypeOK, Distance
  <2>4. ~steady'
    BY <2>1 DEF SteadyIsOnTime, PacingTypeOK
  <2>5. OneFrameAhead' /\ CreditSuffices'
    BY <2>1, <2>2, <2>3 DEF OneFrameAhead, CreditSuffices, PacingTypeOK
  <2>6. Recoverable' = Frame
    BY <2>3 DEF Recoverable
  <2>7. BurstIsOwed'
    BY <2>1, <2>2, <2>6 DEF BurstIsOwed, PacingTypeOK
  <2> QED BY <2>2, <2>4, <2>5, <2>7 DEF SteadyIsOnTime
<1>2. CASE Halt
  <2>1. /\ active /\ active' = FALSE /\ nextFrameAt' = Undefined
        /\ steady' = FALSE
        /\ UNCHANGED <<now, credit, balance, allowance, runs>>
    BY <1>2 DEF Halt
  <2>2. Distance \in Int /\ Distance <= Frame + Early
    BY <2>1 DEF OneFrameAhead, PacingTypeOK, Distance, Undefined
  <2>3. PacingTypeOK'
    BY <2>1 DEF PacingTypeOK
  <2>4. CreditSuffices'
    BY <2>1, <2>2 DEF CreditSuffices, PacingTypeOK
  <2>5. Recoverable \in Int /\ Recoverable <= Frame + Early
    BY <2>2 DEF Recoverable
  <2>6. BurstIsOwed'
    BY <2>1, <2>5 DEF BurstIsOwed, PacingTypeOK
  <2> QED BY <2>1, <2>3, <2>4, <2>6 DEF OneFrameAhead, SteadyIsOnTime
<1>3. CASE Fire
  <2>1. /\ active /\ active' /\ now' = now /\ Distance <= Early
        /\ credit' = credit - Frame /\ balance' = balance - Frame
        /\ nextFrameAt' = Slot(nextFrameAt)
        /\ UNCHANGED <<allowance, runs>>
        /\ steady' = (steady /\ ~Stalled(nextFrameAt))
    BY <1>3 DEF Fire, Distance, PacingTypeOK, Undefined
  <2>2. Distance \in Int
    BY <2>1 DEF PacingTypeOK, Distance, Undefined
  <2>3. Stalled(nextFrameAt) <=> Distance < -Limit
    BY <2>1, LimitIs DEF Stalled, Distance, PacingTypeOK, Undefined
  <2>4. PacingTypeOK'
    BY <2>1, SlotIs DEF PacingTypeOK, Undefined
  <2>5. CASE Stalled(nextFrameAt)
    <3>0. now \in Nat /\ nextFrameAt' = now + Frame /\ ~steady'
      BY <2>1, <2>5, SlotIs DEF PacingTypeOK
    <3>5. Distance' = Frame
      BY <2>1, <3>0 DEF Distance
    <3>1. Distance' = Frame /\ Recoverable' = Frame /\ ~steady'
      BY <3>0, <3>5 DEF Recoverable
    <3>2. credit >= Frame + Early /\ balance + allowance >= 0
      BY <2>1, <2>2, <2>3, <2>5
         DEF CreditSuffices, BurstIsOwed, Recoverable, PacingTypeOK
    <3>3. OneFrameAhead' /\ CreditSuffices'
      BY <2>1, <2>4, <3>1, <3>2 DEF OneFrameAhead, CreditSuffices, PacingTypeOK
    <3>4. BurstIsOwed'
      BY <2>1, <2>4, <3>1, <3>2 DEF BurstIsOwed, PacingTypeOK
    <3> QED BY <2>4, <3>1, <3>3, <3>4 DEF SteadyIsOnTime
  <2>6. CASE ~Stalled(nextFrameAt)
    <3>1. Distance' = Distance + Frame /\ Recoverable' = Recoverable + Frame
      BY <2>1, <2>2, <2>3, <2>6, SlotIs
         DEF Distance, Recoverable, PacingTypeOK, Undefined
    <3>2. OneFrameAhead' /\ CreditSuffices'
      BY <2>1, <2>2, <2>4, <3>1 DEF OneFrameAhead, CreditSuffices, PacingTypeOK
    <3>3. Recoverable \in Int
      BY <2>2 DEF Recoverable
    <3>4. BurstIsOwed'
      BY <2>1, <2>4, <3>1, <3>3 DEF BurstIsOwed, PacingTypeOK
    <3>5. SteadyIsOnTime'
      BY <2>1, <2>2, <2>4, <3>1 DEF SteadyIsOnTime, PacingTypeOK
    <3> QED BY <2>4, <3>2, <3>4, <3>5
  <2> QED BY <2>5, <2>6
<1>4. CASE Pass
  <2>1. /\ now' = now + 1
        /\ UNCHANGED <<active, nextFrameAt, allowance, runs, steady>>
        /\ active => credit' = credit + 1 /\ balance' = balance + 1
        /\ ~active => credit' = credit /\ balance' = balance
    BY <1>4 DEF Pass
  <2>2. PacingTypeOK'
    BY <2>1 DEF PacingTypeOK
  <2>3. CASE active
    <3>1. Distance \in Int /\ Distance' = Distance - 1
      BY <2>1, <2>3 DEF Distance, PacingTypeOK, Undefined
    <3>2. OneFrameAhead' /\ CreditSuffices'
      BY <2>1, <2>2, <2>3, <3>1 DEF OneFrameAhead, CreditSuffices, PacingTypeOK
    <3>3. /\ Recoverable \in Int /\ Recoverable' \in Int
          /\ Recoverable' >= Recoverable - 1
      BY <3>1 DEF Recoverable
    <3>4. BurstIsOwed'
      <4>1. balance + allowance + Recoverable + Limit >= 0
        BY <2>3 DEF BurstIsOwed
      <4>2. balance \in Int /\ allowance \in Nat
        BY DEF PacingTypeOK
      <4>3. balance' = balance + 1 /\ allowance' = allowance
        BY <2>1, <2>3
      <4>4. ASSUME NEW r \in Int, NEW q \in Int, q >= r - 1,
                   balance + allowance + r + Limit >= 0
            PROVE  (balance + 1) + allowance + q + Limit >= 0
        BY <4>2, <4>4
      <4>5. balance' + allowance' + Recoverable' + Limit >= 0
        BY <3>3, <4>1, <4>3, <4>4
      <4> QED BY <2>1, <2>3, <4>5 DEF BurstIsOwed
    <3>5. SteadyIsOnTime'
      BY <2>1, <2>2, <2>3, <3>1 DEF SteadyIsOnTime, PacingTypeOK
    <3> QED BY <2>2, <3>2, <3>4, <3>5
  <2>4. CASE ~active
    <3>1. ~active' /\ ~steady'
      BY <2>1, <2>4 DEF SteadyIsOnTime
    <3> QED BY <2>1, <2>2, <2>4, <3>1
            DEF OneFrameAhead, CreditSuffices, BurstIsOwed, SteadyIsOnTime
  <2> QED BY <2>3, <2>4
<1>5. CASE Mark
  <2>1. /\ balance' = 0 /\ allowance' = 0 /\ steady' = active
        /\ UNCHANGED <<now, active, nextFrameAt, credit, runs>>
    BY <1>5 DEF Mark
  <2>2. PacingTypeOK'
    BY <2>1 DEF PacingTypeOK
  <2>3. Distance' = Distance /\ Recoverable' = Recoverable
    BY <2>1 DEF Distance, Recoverable
  <2>4. OneFrameAhead' /\ CreditSuffices'
    BY <2>1, <2>3 DEF OneFrameAhead, CreditSuffices
  <2>5. active => Distance \in Int
    BY DEF Distance, PacingTypeOK, Undefined
  <2>6. ASSUME active
        PROVE  Recoverable \in Int /\ Recoverable >= -Limit
    <3>1. Distance \in Int
      BY <2>5, <2>6
    <3>2. -Limit \in Int
      OBVIOUS
    <3> QED BY <3>1, <3>2 DEF Recoverable
  <2>7. BurstIsOwed'
    BY <2>1, <2>3, <2>6 DEF BurstIsOwed
  <2>8. SteadyIsOnTime'
    BY <2>1, <2>3, <2>5 DEF SteadyIsOnTime, OneFrameAhead
  <2> QED BY <2>2, <2>4, <2>7, <2>8
<1>6. CASE UNCHANGED pacingVars
  BY <1>6 DEF pacingVars, PacingTypeOK, OneFrameAhead, CreditSuffices, BurstIsOwed,
              SteadyIsOnTime, Distance, Recoverable
<1> QED BY <1>1, <1>2, <1>3, <1>4, <1>5, <1>6 DEF PacingNext

(* PacingInv is an invariant of the clock. *)
LEMMA PacingInvariance == PacingSpec => []PacingInv
BY PacingInitially, PacingStep, PTL DEF PacingSpec
-----------------------------------------------------------------------------
(* No game runs ahead of its own running time, however its timers fire,    *)
(* its thread stalls and its player pauses (scheduleFrame, stopClock).     *)
THEOREM PacedByTime == PacingSpec => []NeverAhead
<1>1. PacingInv => NeverAhead
  <2> SUFFICES ASSUME PacingInv, active PROVE credit >= 0
    BY DEF PacingInv, CreditSuffices, NeverAhead
  <2>1. Distance \in Int
    BY DEF PacingInv, PacingTypeOK, Distance, Undefined
  <2> QED BY <2>1, Limits, LimitIs
          DEF PacingInv, PacingTypeOK, OneFrameAhead, CreditSuffices
<1> QED BY <1>1, PacingInvariance, PTL

(* After any stall, from any moment on, runFrame catches up with no more   *)
(* than CatchUp frames and the one that is due.                            *)
THEOREM CatchUpIsBounded == PacingSpec => []BurstBounded
<1>1. PacingInv => BurstBounded
  <2> SUFFICES ASSUME PacingInv, active PROVE BurstBounded
    BY Limits, LimitIs DEF PacingInv, PacingTypeOK, BurstIsOwed, BurstBounded
  <2>1. Distance \in Int
    BY DEF PacingInv, PacingTypeOK, Distance, Undefined
  <2>2. Recoverable \in Int /\ Recoverable <= Frame + Early
    BY <2>1, Limits, LimitIs DEF PacingInv, OneFrameAhead, Recoverable
  <2> QED BY <2>2, Limits, LimitIs DEF PacingInv, PacingTypeOK, BurstIsOwed, BurstBounded
<1> QED BY <1>1, PacingInvariance, PTL

(* Late timers alone never slow the game down: the grid of scheduleFrame   *)
(* moves only after a stall or a pause.                                    *)
THEOREM TimersDoNotDrift == PacingSpec => []NoDrift
<1>1. PacingInv => NoDrift
  <2> SUFFICES ASSUME PacingInv, steady, ~Stalled(nextFrameAt) PROVE NoDrift
    BY DEF NoDrift
  <2>1. active /\ balance + Distance <= Frame + Early
    BY DEF PacingInv, SteadyIsOnTime
  <2>2. Distance \in Int /\ Distance >= -Limit
    BY <2>1, Limits, LimitIs DEF PacingInv, PacingTypeOK, Distance, Stalled, Undefined
  <2> QED BY <2>1, <2>2, Limits, LimitIs DEF PacingInv, PacingTypeOK, NoDrift
<1> QED BY <1>1, PacingInvariance, PTL
-----------------------------------------------------------------------------
(* The threads, the clock and the renderer keep to their types, whichever  *)
(* of them moves (sameboy-worker.ts, mgba-worker.ts, renderer.tsx).        *)
THEOREM PartsStayTyped == PartsSpec => []PartsTypeOK
<1>1. PartsInit => Init /\ PacingInit /\ RendererInit
  BY DEF PartsInit
<1>2. [PartsNext]_partsVars => [Next]_sameBoyVars /\ [PacingNext]_pacingVars /\ [RendererNext]_rendererVars
  BY DEF PartsNext, partsVars
<1>3. PartsSpec => Spec /\ PacingSpec /\ RendererSpec
  BY <1>1, <1>2, PTL DEF PartsSpec, Spec, PacingSpec, RendererSpec
<1>4. CoreInv => TypeOK
  BY DEF CoreInv
<1>5. PacingInv => PacingTypeOK
  BY DEF PacingInv
<1>6. MgbaInv => Mgba!TypeOK
  BY DEF MgbaInv
<1>7. TypeOK /\ Mgba!TypeOK /\ PacingTypeOK /\ RendererTypeOK => PartsTypeOK
  BY DEF PartsTypeOK
<1> QED
  BY <1>3, <1>4, <1>5, <1>6, <1>7, CoreInvariance, PacingInvariance, MgbaInvariance, RendererStaysTyped, PTL
=============================================================================
