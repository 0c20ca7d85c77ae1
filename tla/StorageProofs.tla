------------------------------ MODULE StorageProofs ------------------------------
(***************************************************************************)
(* Proofs about the stores of the main process, each for any values of its *)
(* constants: CartridgeSaveStore, LocalGameLibrary and SaveStates.         *)
(***************************************************************************)
EXTENDS CartridgeSaveStore, LocalGameLibrary, SaveStates, TLAPS

(***************************************************************************)
(* CartridgeSaveStore.  The inductive invariant follows the promise chain: *)
(* a call that has begun has no unsettled call of its key before it        *)
(* (SavesInOrder), because the promise it waited for was the newest of its *)
(* key when it was made (ChainIsNewest), and the save of a key is older    *)
(* than every call that still has to rename (SaveIsOlder).                 *)
(***************************************************************************)
Unsettled(w) == step[w] \in Begun \union {"queued"}

(* The promise a call waits for belongs to an earlier call of its key. *)
PreviousIsEarlier ==
  \A w \in 1..issued :
    /\ keyOf[w] \in Keys
    /\ previous[w] < w
    /\ previous[w] # NoWrite => keyOf[previous[w]] = keyOf[w]

(* A call behind an unsettled call of its key is queued, and the promise   *)
(* it waits for is that call's or a later one's.                           *)
SavesInOrder ==
  \A v, w \in 1..issued :
    v < w /\ keyOf[v] = keyOf[w] /\ Unsettled(v)
      => step[w] = "queued" /\ v <= previous[w]

(* The map of promises holds a call at or behind every unsettled one. *)
ChainIsNewest ==
  /\ \A k \in Keys : chain[k] # NoWrite
       => chain[k] <= issued /\ keyOf[chain[k]] = k
  /\ \A w \in 1..issued : Unsettled(w)
       => chain[keyOf[w]] # NoWrite /\ w <= chain[keyOf[w]]

(* The save is older than every call that has yet to replace it, a call    *)
(* that renamed its file is on disk, and only complete files are renamed.  *)
SaveIsOlder ==
  /\ \A k \in Keys : file[k].write <= issued /\ file[k].whole
  /\ \A w \in 1..issued :
       /\ step[w] \in {"queued", "mkdir", "writeFile", "rename", "unlink"}
            => file[keyOf[w]].write < w
       /\ step[w] \in {"renamed", "ok"} => file[keyOf[w]].write >= w
       /\ step[w] = "rename" => temp[w] = "whole"

SavesInv == TypeOK /\ PreviousIsEarlier /\ SavesInOrder /\ ChainIsNewest /\ SaveIsOlder

(* A store that was just created satisfies the invariant. *)
LEMMA SavesBegin == Init => SavesInv
  BY StoreAssumption
  DEF Init, SavesInv, TypeOK, PreviousIsEarlier, SavesInOrder, ChainIsNewest,
      SaveIsOlder, Unsettled, Step, Begun, Settled, Write, NoWrite

(* Exactly the calls that were made have a step and a key. *)
LEMMA MadeCalls ==
  ASSUME SavesInv, NEW w \in Write, step[w] # "unused"
  PROVE  w \in 1..issued /\ keyOf[w] \in Keys
<1>1. w \in 1..issued
  BY StoreAssumption DEF SavesInv, TypeOK, Write
<1> QED
  BY <1>1 DEF SavesInv, PreviousIsEarlier

(* A call that has begun and moves on to another await, or settles, leaves *)
(* the chain as it is: no call of its key before it was unsettled, and the *)
(* calls behind it stay queued.                                            *)
LEMMA MovingOn ==
  ASSUME SavesInv, NEW w \in Write, step[w] \in Begun,
         NEW s \in Begun \union Settled, step' = [step EXCEPT ![w] = s],
         UNCHANGED <<issued, keyOf, previous, chain>>
  PROVE  PreviousIsEarlier' /\ SavesInOrder' /\ ChainIsNewest'
<1> USE StoreAssumption DEF SavesInv, TypeOK, Step, Begun, Settled, Write, NoWrite,
        Unsettled
<1>1. PreviousIsEarlier'
  BY DEF PreviousIsEarlier
<1>2. SavesInOrder'
  BY DEF SavesInOrder
<1>3. ChainIsNewest'
  BY DEF ChainIsNewest
<1> QED
  BY <1>1, <1>2, <1>3

(* A new call waits for the newest promise of its key, and nothing that is *)
(* unsettled for that key is newer.                                        *)
LEMMA CallInductive ==
  ASSUME SavesInv, NEW k \in Keys, Call(k)
  PROVE  SavesInv'
<1> DEFINE new == issued + 1
<1>1. /\ issued \in Nat /\ new \in Write /\ new \in Nat
      /\ \A w \in 1..issued : w \in Write /\ w \in Nat /\ w # new /\ w < new
      /\ 1..new = 1..issued \union {new}
  BY StoreAssumption DEF SavesInv, TypeOK, Call, Write
<1>2. /\ issued' = new
      /\ keyOf' = [keyOf EXCEPT ![new] = k]
      /\ step' = [step EXCEPT ![new] = "queued"]
      /\ previous' = [previous EXCEPT ![new] = chain[k]]
      /\ chain' = [chain EXCEPT ![k] = new]
      /\ temp' = temp /\ file' = file
  BY DEF Call
<1>3. /\ \A w \in 1..issued : /\ keyOf'[w] = keyOf[w] /\ step'[w] = step[w]
                              /\ previous'[w] = previous[w]
      /\ keyOf'[new] = k /\ step'[new] = "queued" /\ previous'[new] = chain[k]
      /\ \A l \in Keys : chain'[l] = IF l = k THEN new ELSE chain[l]
  BY <1>1, <1>2 DEF SavesInv, TypeOK
<1>4. /\ \A w \in 1..issued : previous[w] \in Nat /\ keyOf[w] \in Keys
      /\ \A l \in Keys : chain[l] \in Nat
  BY <1>1, StoreAssumption DEF SavesInv, TypeOK, PreviousIsEarlier
<1>5. chain[k] # NoWrite => chain[k] \in 1..issued /\ keyOf[chain[k]] = k
  BY <1>1, <1>4 DEF SavesInv, ChainIsNewest, NoWrite
<1> HIDE DEF new
<1>6. TypeOK'
  <2>1. \A w \in Write : step'[w] = "unused" <=> w > issued'
    BY <1>1, <1>2 DEF SavesInv, TypeOK, Write, new
  <2> QED
    BY <1>1, <1>2, <2>1, StoreAssumption DEF SavesInv, TypeOK, Step, Write
<1>7. PreviousIsEarlier'
  <2>1. ASSUME NEW w \in 1..issued
        PROVE  /\ keyOf'[w] \in Keys /\ previous'[w] < w
               /\ previous'[w] # NoWrite => keyOf'[previous'[w]] = keyOf'[w]
    <3>1. previous[w] # NoWrite => previous[w] \in 1..issued
      BY <1>1, <1>4 DEF SavesInv, PreviousIsEarlier, NoWrite
    <3> QED
      BY <1>3, <3>1 DEF SavesInv, PreviousIsEarlier
  <2>2. /\ keyOf'[new] \in Keys /\ previous'[new] < new
        /\ previous'[new] # NoWrite => keyOf'[previous'[new]] = keyOf'[new]
    BY <1>1, <1>3, <1>5 DEF NoWrite
  <2> QED
    BY <1>1, <1>2, <2>1, <2>2 DEF PreviousIsEarlier
<1>8. SavesInOrder'
  <2>1. ASSUME NEW v \in 1..issued, keyOf[v] = k, Unsettled(v)
        PROVE  v <= chain[k]
    BY <2>1 DEF SavesInv, ChainIsNewest
  <2>2. \A v \in 1..issued : Unsettled(v)' <=> Unsettled(v)
    BY <1>3 DEF Unsettled
  <2>3. ASSUME NEW v \in 1..new, NEW w \in 1..new,
               v < w, keyOf'[v] = keyOf'[w], Unsettled(v)'
        PROVE  step'[w] = "queued" /\ v <= previous'[w]
    <3>1. v \in 1..issued
      BY <1>1, <2>3
    <3>2. CASE w = new
      BY <1>3, <2>1, <2>2, <2>3, <3>1, <3>2
    <3>3. CASE w \in 1..issued
      BY <1>3, <2>2, <2>3, <3>1, <3>3 DEF SavesInv, SavesInOrder
    <3> QED
      BY <1>1, <3>2, <3>3
  <2> QED
    BY <1>2, <2>3 DEF SavesInOrder
<1>9. ChainIsNewest'
  <2>1. ASSUME NEW l \in Keys, chain'[l] # NoWrite
        PROVE  chain'[l] <= new /\ keyOf'[chain'[l]] = l
    <3>1. CASE l = k
      BY <1>1, <1>3, <3>1
    <3>2. CASE l # k
      <4>1. chain[l] \in 1..issued /\ keyOf[chain[l]] = l
        BY <1>1, <1>3, <1>4, <2>1, <3>2 DEF SavesInv, ChainIsNewest, NoWrite
      <4> QED
        BY <1>1, <1>3, <3>2, <4>1
    <3> QED
      BY <3>1, <3>2
  <2>2. ASSUME NEW w \in 1..new, Unsettled(w)'
        PROVE  chain'[keyOf'[w]] # NoWrite /\ w <= chain'[keyOf'[w]]
    <3>1. CASE w = new
      BY <1>1, <1>3, <3>1 DEF NoWrite
    <3>2. CASE w \in 1..issued
      <4>1. Unsettled(w)
        BY <1>3, <2>2, <3>2 DEF Unsettled
      <4>2. chain[keyOf[w]] # NoWrite /\ w <= chain[keyOf[w]]
        BY <3>2, <4>1 DEF SavesInv, ChainIsNewest
      <4> QED
        BY <1>1, <1>3, <1>4, <3>2, <4>2 DEF NoWrite
    <3> QED
      BY <1>1, <3>1, <3>2
  <2> QED
    BY <1>2, <2>1, <2>2 DEF ChainIsNewest
<1>10. SaveIsOlder'
  <2>1. \A l \in Keys : file[l].write <= issued /\ file[l].whole
                          /\ file[l].write \in Nat
    BY DEF SavesInv, SaveIsOlder, TypeOK
  <2>2. ASSUME NEW w \in 1..issued
        PROVE  /\ step'[w] \in {"queued", "mkdir", "writeFile", "rename", "unlink"}
                    => file'[keyOf'[w]].write < w
               /\ step'[w] \in {"renamed", "ok"} => file'[keyOf'[w]].write >= w
               /\ step'[w] = "rename" => temp'[w] = "whole"
    BY <1>2, <1>3 DEF SavesInv, SaveIsOlder
  <2>3. file'[keyOf'[new]].write < new
    BY <1>1, <1>2, <1>3, <2>1 DEF new
  <2>4. \A l \in Keys : file'[l].write <= new /\ file'[l].whole
    BY <1>1, <1>2, <2>1 DEF new
  <2> QED
    BY <1>1, <1>2, <1>3, <2>2, <2>3, <2>4 DEF SaveIsOlder
<1> QED
  BY <1>6, <1>7, <1>8, <1>9, <1>10 DEF SavesInv

(* A call starts only when no call of its key before it is unsettled: the  *)
(* promise it waited for has settled, and SavesInOrder holds for that one.      *)
LEMMA NoneBefore ==
  ASSUME SavesInv, NEW w \in 1..issued, MayStart(w),
         NEW v \in 1..issued, v < w, keyOf[v] = keyOf[w]
  PROVE  ~Unsettled(v)
<1> USE StoreAssumption DEF SavesInv, TypeOK, Step, Begun, Settled, Write, NoWrite,
        Unsettled
<1>1. SUFFICES ASSUME Unsettled(v) PROVE FALSE
  OBVIOUS
<1>2. v <= previous[w] /\ previous[w] \in 1..issued
  <2>1. v <= previous[w]
    BY <1>1 DEF SavesInOrder
  <2>2. previous[w] < w /\ previous[w] \in Nat
    BY DEF PreviousIsEarlier
  <2> QED
    BY <2>1, <2>2
<1>3. step[previous[w]] \in Settled /\ keyOf[previous[w]] = keyOf[w]
  <2>1. previous[w] # NoWrite
    BY <1>2
  <2>2. step[previous[w]] \in Settled
    BY ONLY <2>1, MayStart(w) DEF MayStart
  <2>3. PreviousIsEarlier
    OBVIOUS
  <2>4. keyOf[previous[w]] = keyOf[w]
    BY ONLY <2>1, <2>3, w \in 1..issued DEF PreviousIsEarlier
  <2> QED
    BY ONLY <2>2, <2>4
<1>4. v # previous[w]
  BY <1>1, <1>3
<1>5. step[previous[w]] = "queued"
  BY <1>1, <1>2, <1>3, <1>4 DEF SavesInOrder
<1> QED
  BY <1>3, <1>5

(* Every step of the store preserves the inductive invariant. *)
LEMMA SavesStep == SavesInv /\ [Next]_vars => SavesInv'
<1> SUFFICES ASSUME SavesInv, [Next]_vars
             PROVE  SavesInv'
  OBVIOUS
<1> USE StoreAssumption DEF SavesInv, TypeOK, Step, Begun, Settled, Write, NoWrite,
        Unsettled
<1>1. ASSUME NEW k \in Keys, Call(k) PROVE SavesInv'
  BY <1>1, CallInductive
<1>2. ASSUME NEW w \in Write, Start(w) PROVE SavesInv'
  <2>1. w \in 1..issued
    BY <1>2, MadeCalls DEF Start, MayStart
  <2>2. TypeOK'
    BY <1>2, <2>1 DEF Start, MayStart
  <2>3. PreviousIsEarlier'
    BY <1>2 DEF Start, PreviousIsEarlier
  <2>4. SavesInOrder'
    <3>1. \A v \in 1..issued :
            v < w /\ keyOf[v] = keyOf[w] => ~Unsettled(v)
      BY <1>2, <2>1, NoneBefore DEF Start
    <3> QED
      BY <1>2, <2>1, <3>1 DEF Start, MayStart, SavesInOrder
  <2>5. ChainIsNewest'
    BY <1>2 DEF Start, MayStart, ChainIsNewest
  <2>6. SaveIsOlder'
    BY <1>2 DEF Start, MayStart, SaveIsOlder
  <2> QED
    BY <2>2, <2>3, <2>4, <2>5, <2>6
<1>3. ASSUME NEW w \in Write, MakeDirectory(w) PROVE SavesInv'
  <2>1. w \in 1..issued
    BY <1>3, MadeCalls DEF MakeDirectory
  <2>2. TypeOK'
    BY <1>3, <2>1 DEF MakeDirectory
  <2>3. SaveIsOlder'
    BY <1>3, <2>1 DEF MakeDirectory, SaveIsOlder
  <2> QED
    BY <1>3, <2>2, <2>3, MovingOn DEF MakeDirectory
<1>4. ASSUME NEW w \in Write, WriteTemporary(w) PROVE SavesInv'
  <2>1. w \in 1..issued
    BY <1>4, MadeCalls DEF WriteTemporary
  <2>2. TypeOK'
    BY <1>4, <2>1 DEF WriteTemporary
  <2>3. SaveIsOlder'
    BY <1>4, <2>1 DEF WriteTemporary, SaveIsOlder
  <2> QED
    BY <1>4, <2>2, <2>3, MovingOn DEF WriteTemporary
<1>5. ASSUME NEW w \in Write, Rename(w) PROVE SavesInv'
  <2>1. w \in 1..issued /\ keyOf[w] \in Keys
    BY <1>5, MadeCalls DEF Rename
  <2>2. TypeOK'
    <3>1. [write |-> w, whole |-> temp[w] = "whole"]
            \in [write : 0..MaxWrites, whole : BOOLEAN]
      OBVIOUS
    <3>2. CASE /\ step' = [step EXCEPT ![w] = "unlink"]
               /\ UNCHANGED <<temp, file>>
      BY <1>5, <2>1, <3>2 DEF Rename
    <3>3. CASE /\ step' = [step EXCEPT ![w] = "renamed"]
               /\ temp' = [temp EXCEPT ![w] = "absent"]
               /\ file' = [file EXCEPT ![keyOf[w]] =
                             [write |-> w, whole |-> temp[w] = "whole"]]
      BY <1>5, <2>1, <3>1, <3>3 DEF Rename
    <3> QED
      BY <1>5, <3>2, <3>3 DEF Rename
  <2>3. SaveIsOlder'
    <3>1. CASE /\ step' = [step EXCEPT ![w] = "unlink"]
               /\ UNCHANGED <<temp, file>>
      BY <1>5, <3>1 DEF Rename, SaveIsOlder
    <3>2. CASE /\ step' = [step EXCEPT ![w] = "renamed"]
               /\ temp' = [temp EXCEPT ![w] = "absent"]
               /\ file' = [file EXCEPT ![keyOf[w]] =
                             [write |-> w, whole |-> temp[w] = "whole"]]
      <4>1. file[keyOf[w]].write < w /\ temp[w] = "whole"
        BY <1>5, <2>1 DEF Rename, SaveIsOlder
      <4>2. \A v \in 1..issued :
              v # w /\ keyOf[v] = keyOf[w] /\ Unsettled(v)
                => w < v /\ step[v] = "queued"
        BY <1>5, <2>1 DEF Rename, SavesInOrder
      <4>3. \A k \in Keys : file'[k] =
              IF k = keyOf[w] THEN [write |-> w, whole |-> TRUE] ELSE file[k]
        BY <3>2, <4>1, <2>1
      <4>4. step' = [step EXCEPT ![w] = "renamed"]
              /\ temp' = [temp EXCEPT ![w] = "absent"]
              /\ issued' = issued /\ keyOf' = keyOf
        BY <1>5, <3>2 DEF Rename
      <4>5. ASSUME NEW k \in Keys
            PROVE  file'[k].write <= issued' /\ file'[k].whole
        <5>1. CASE k = keyOf[w]
          BY <2>1, <4>3, <4>4, <5>1
        <5>2. CASE k # keyOf[w]
          BY <4>3, <4>4, <5>2 DEF SaveIsOlder
        <5> QED
          BY <5>1, <5>2
      <4>6. ASSUME NEW v \in 1..issued
            PROVE /\ step'[v] \in {"queued", "mkdir", "writeFile", "rename", "unlink"}
                       => file'[keyOf[v]].write < v
                  /\ step'[v] \in {"renamed", "ok"} => file'[keyOf[v]].write >= v
                  /\ step'[v] = "rename" => temp'[v] = "whole"
        <5>1. keyOf[v] \in Keys
          BY DEF PreviousIsEarlier
        <5>2. CASE v = w
          <6>1. step'[v] = "renamed" /\ keyOf[v] \in Keys
            BY <2>1, <4>4, <5>2
          <6>2. file'[keyOf[v]].write = v
            BY <2>1, <4>3, <5>2
          <6> QED
            BY <6>1, <6>2
        <5>3. CASE v # w /\ keyOf[v] = keyOf[w]
          <6>1. step'[v] = step[v] /\ temp'[v] = temp[v]
            BY <4>4, <5>3
          <6>2. file'[keyOf[v]].write = w
            BY <2>1, <4>3, <5>3
          <6>3. CASE Unsettled(v)
            BY <4>2, <5>3, <6>1, <6>2, <6>3
          <6>4. CASE ~Unsettled(v)
            <7>1. step[v] = "ok" => v <= file[keyOf[w]].write
              BY <5>3 DEF SaveIsOlder
            <7> QED
              BY <2>1, <4>1, <6>1, <6>2, <6>4, <7>1
          <6> QED
            BY <6>3, <6>4
        <5>4. CASE v # w /\ keyOf[v] # keyOf[w]
          <6>1. step'[v] = step[v] /\ temp'[v] = temp[v]
            BY <4>4, <5>4
          <6>2. file'[keyOf[v]] = file[keyOf[v]]
            BY <4>3, <5>1, <5>4
          <6> QED
            BY <6>1, <6>2 DEF SaveIsOlder
        <5> QED
          BY <5>2, <5>3, <5>4
      <4> QED
        BY <4>4, <4>5, <4>6 DEF SaveIsOlder
    <3> QED
      BY <1>5, <3>1, <3>2 DEF Rename
  <2> QED
    BY <1>5, <2>2, <2>3, MovingOn DEF Rename
<1>6. ASSUME NEW w \in Write, Fulfil(w) PROVE SavesInv'
  <2>1. w \in 1..issued
    BY <1>6, MadeCalls DEF Fulfil
  <2>2. TypeOK'
    BY <1>6, <2>1 DEF Fulfil
  <2>3. SaveIsOlder'
    BY <1>6, <2>1 DEF Fulfil, SaveIsOlder
  <2> QED
    BY <1>6, <2>2, <2>3, MovingOn DEF Fulfil
<1>7. ASSUME NEW w \in Write, RemoveTemporary(w) PROVE SavesInv'
  <2>1. w \in 1..issued
    BY <1>7, MadeCalls DEF RemoveTemporary
  <2>2. TypeOK'
    BY <1>7, <2>1 DEF RemoveTemporary
  <2>3. SaveIsOlder'
    BY <1>7, <2>1 DEF RemoveTemporary, SaveIsOlder
  <2> QED
    BY <1>7, <2>2, <2>3, MovingOn DEF RemoveTemporary
<1>8. ASSUME NEW w \in Write, Cleanup(w) PROVE SavesInv'
  <2>1. w \in 1..issued /\ keyOf[w] \in Keys
    BY <1>8, MadeCalls DEF Cleanup
  <2>2. TypeOK'
    BY <1>8, <2>1 DEF Cleanup
  <2>3. PreviousIsEarlier' /\ SavesInOrder' /\ SaveIsOlder'
    BY <1>8 DEF Cleanup, PreviousIsEarlier, SavesInOrder, SaveIsOlder
  <2>4. \A v \in 1..issued : keyOf[v] = keyOf[w] => ~Unsettled(v)
    BY <1>8, <2>1 DEF Cleanup, SavesInOrder, ChainIsNewest
  <2>5. ChainIsNewest'
    <3>1. ASSUME NEW k \in Keys, chain'[k] # NoWrite
          PROVE  chain'[k] <= issued' /\ (keyOf[chain[k]] = k)'
      BY <1>8, <2>1, <3>1 DEF Cleanup, ChainIsNewest
    <3>2. ASSUME NEW v \in 1..issued, Unsettled(v)
          PROVE  chain'[keyOf[v]] # NoWrite /\ v <= chain'[keyOf[v]]
      <4>1. keyOf[v] # keyOf[w] /\ keyOf[v] \in Keys
        BY <2>4, <3>2 DEF PreviousIsEarlier
      <4>2. chain'[keyOf[v]] = chain[keyOf[v]]
        BY <1>8, <2>1, <4>1 DEF Cleanup
      <4> QED
        BY <3>2, <4>2 DEF ChainIsNewest
    <3> QED
      BY <1>8, <3>1, <3>2 DEF Cleanup, ChainIsNewest
  <2> QED
    BY <2>2, <2>3, <2>5
<1>9. CASE Crash
  <2>1. TypeOK'
    BY <1>9 DEF Crash
  <2>2. \A v \in 1..issued : ~Unsettled(v)'
    BY <1>9 DEF Crash
  <2>3. PreviousIsEarlier' /\ SavesInOrder' /\ ChainIsNewest'
    BY <1>9, <2>2 DEF Crash, PreviousIsEarlier, SavesInOrder, ChainIsNewest
  <2>4. SaveIsOlder'
    BY <1>9 DEF Crash, SaveIsOlder
  <2> QED
    BY <2>1, <2>3, <2>4
<1>10. CASE UNCHANGED vars
  BY <1>10 DEF vars, PreviousIsEarlier, SavesInOrder, ChainIsNewest, SaveIsOlder
<1> QED
  BY <1>1, <1>2, <1>3, <1>4, <1>5, <1>6, <1>7, <1>8, <1>9, <1>10
  DEF Next, Progress

(* Every reachable state of the store satisfies the invariant. *)
LEMMA SavesInvariance == Spec => []SavesInv
  BY SavesBegin, SavesStep, PTL DEF Spec

(* Type correctness: the state of the store (the #writes map, the files,   *)
(* the calls in flight) always has its type.                               *)
THEOREM TypeCorrect == Spec => []TypeOK
<1>1. SavesInv => TypeOK
  BY DEF SavesInv
<1> QED
  BY <1>1, SavesInvariance, PTL

(* At most one call of a key is past its queue at any time: the chain of   *)
(* `write` serializes the file-system operations of a key.                 *)
THEOREM OneWriter == Spec => []OneWriterPerKey
<1>1. SavesInv => OneWriterPerKey
  <2> SUFFICES ASSUME SavesInv, NEW v \in Write, NEW w \in Write, v < w,
                      step[v] \in Begun \union {"queued"}, keyOf[v] = keyOf[w],
                      step[w] # "unused"
               PROVE  step[w] = "queued"
    BY DEF OneWriterPerKey
  <2>1. v \in 1..issued /\ w \in 1..issued
    BY MadeCalls DEF Begun
  <2> QED
    BY <2>1 DEF SavesInv, SavesInOrder, Unsettled
<1> QED
  BY <1>1, SavesInvariance, PTL

(* A save that was acknowledged to the host is never lost to a failed or   *)
(* older write, nor to a crash.                                            *)
THEOREM Durability == Spec => []AcknowledgedIsDurable
<1>1. SavesInv => AcknowledgedIsDurable
  <2> SUFFICES ASSUME SavesInv, NEW w \in Write, step[w] = "ok"
               PROVE  file[keyOf[w]].write >= w
    BY DEF AcknowledgedIsDurable
  <2>1. w \in 1..issued
    BY MadeCalls
  <2> QED
    BY <2>1 DEF SavesInv, SaveIsOlder
<1> QED
  BY <1>1, SavesInvariance, PTL

(* A delayed periodic flush never replaces a newer final flush. *)
THEOREM NeverGoesBack == Spec => SaveNeverGoesBack
<1>1. SavesInv /\ [Next]_vars => [\A k \in Keys : file'[k].write >= file[k].write]_vars
  <2> SUFFICES ASSUME SavesInv, Next, NEW k \in Keys
               PROVE  file'[k].write >= file[k].write
    OBVIOUS
  <2>1. file[k].write \in Nat
    BY StoreAssumption DEF SavesInv, TypeOK
  <2>2. CASE file' = file
    BY <2>1, <2>2
  <2>3. ASSUME NEW w \in Write, Rename(w) PROVE file'[k].write >= file[k].write
    <3>1. w \in 1..issued /\ keyOf[w] \in Keys /\ w \in Nat
      BY <2>3, MadeCalls, StoreAssumption DEF Rename, Write
    <3>2. file[keyOf[w]].write < w
      BY <2>3, <3>1 DEF SavesInv, SaveIsOlder, Rename
    <3> QED
      BY <2>1, <2>3, <3>1, <3>2 DEF Rename, SavesInv, TypeOK
  <2> QED
    BY <2>2, <2>3 DEF Next, Progress, Call, Start, MakeDirectory,
       WriteTemporary, Fulfil, RemoveTemporary, Cleanup, Crash
<1> QED
  BY <1>1, SavesInvariance, PTL DEF Spec, SaveNeverGoesBack

(* The failure of one call never rejects another (see the .catch of write):*)
(* a call that is rejected had its turn, and leaves an older save whole.   *)
THEOREM FailuresAreOwn == Spec => FailureIsOwn
<1> DEFINE Own(w) == /\ step[w] \in Begun
                     /\ \A v \in Write : v < w /\ keyOf[v] = keyOf[w] => step[v] \in Settled
                     /\ file' = file /\ file[keyOf[w]].write < w
<1>1. SavesInv /\ [Next]_vars =>
        [\A w \in Write : step'[w] = "failed" /\ step[w] # "failed" => Own(w)]_vars
  <2> SUFFICES ASSUME SavesInv, Next, NEW w \in Write,
                      step'[w] = "failed", step[w] # "failed"
               PROVE  Own(w)
    OBVIOUS
  <2>1. step \in [Write -> Step]
    BY DEF SavesInv, TypeOK
  <2>2. step[w] \in {"mkdir", "unlink"} /\ file' = file
    <3>1. CASE Crash
      BY <3>1 DEF Crash
    <3>2. ASSUME NEW k \in Keys, Call(k) PROVE step[w] \in {"mkdir", "unlink"} /\ file' = file
      BY <2>1, <3>2 DEF Call
    <3>3. ASSUME NEW v \in Write, Progress(v)
          PROVE  step[w] \in {"mkdir", "unlink"} /\ file' = file
      BY <2>1, <3>3 DEF Progress, Start, MakeDirectory, WriteTemporary, Rename,
         Fulfil, RemoveTemporary, Cleanup
    <3> QED
      BY <3>1, <3>2, <3>3 DEF Next
  <2>3. w \in 1..issued
    BY <2>2, MadeCalls
  <2>4. file[keyOf[w]].write < w
    BY <2>2, <2>3 DEF SavesInv, SaveIsOlder
  <2>5. ASSUME NEW v \in Write, v < w, keyOf[v] = keyOf[w] PROVE step[v] \in Settled
    <3>1. v \in 1..issued
      BY <2>3, <2>5 DEF Write, SavesInv, TypeOK
    <3>2. ~Unsettled(v)
      BY <2>2, <2>3, <2>5, <3>1 DEF SavesInv, SavesInOrder
    <3>3. step[v] # "unused"
      BY <3>1, StoreAssumption DEF SavesInv, TypeOK, Write
    <3> QED
      BY <2>1, <3>2, <3>3 DEF Unsettled, Step
  <2> QED
    BY <2>2, <2>4, <2>5 DEF Begun
<1> QED
  BY <1>1, SavesInvariance, PTL DEF Spec, FailureIsOwn

-----------------------------------------------------------------------------
(* The store implements AtomicSaves.  A rename that succeeds is the        *)
(* abstract Commit; the steps that settle a call are Acknowledge and       *)
(* Refuse; every other step of a call is invisible to the caller.          *)

absOutcome == [w \in Write |-> OutcomeOf(w)]
absSaved   == [k \in Keys |-> SavedOf(k)]

(* Every save maps to the call it is from: no file holds part of a save. *)
LEMMA FilesAreWhole ==
  ASSUME SavesInv
  PROVE  absSaved = [k \in Keys |-> file[k].write]
  BY DEF SavesInv, SaveIsOlder, absSaved, SavedOf

(* A step of one call that neither settles it nor touches a file. *)
LEMMA InvisibleStep ==
  ASSUME SavesInv, NEW w \in Write, step[w] \in Begun \union {"queued"},
         NEW s \in Begun, step' = [step EXCEPT ![w] = s],
         UNCHANGED <<issued, keyOf, file>>
  PROVE  UNCHANGED <<issued, keyOf, absOutcome, absSaved>>
<1>1. \A v \in Write : OutcomeOf(v)' = OutcomeOf(v)
  BY DEF SavesInv, TypeOK, OutcomeOf, Begun, Settled
<1>2. absOutcome' = absOutcome
  BY <1>1 DEF absOutcome
<1>3. absSaved' = absSaved
  BY DEF absSaved, SavedOf
<1> QED
  BY <1>2, <1>3

(* A step that settles a call. *)
LEMMA SettlingStep ==
  ASSUME SavesInv, NEW w \in Write, step[w] \in Begun,
         NEW s \in {"ok", "failed"}, step' = [step EXCEPT ![w] = s],
         UNCHANGED <<issued, keyOf, file>>
  PROVE  /\ absOutcome[w] = "pending"
         /\ absOutcome' = [absOutcome EXCEPT ![w] = s]
         /\ UNCHANGED <<issued, keyOf, absSaved>>
<1>1. absOutcome[w] = "pending"
  BY DEF absOutcome, OutcomeOf, Begun, Settled
<1>2. \A v \in Write : OutcomeOf(v)' = IF v = w THEN s ELSE OutcomeOf(v)
  BY DEF SavesInv, TypeOK, OutcomeOf, Begun, Settled
<1>3. absOutcome' = [absOutcome EXCEPT ![w] = s]
  BY <1>2 DEF absOutcome
<1>4. absSaved' = absSaved
  BY DEF absSaved, SavedOf
<1> QED
  BY <1>1, <1>3, <1>4

(* Every step of the store is one of AtomicSaves or is not seen there. *)
LEMMA StepImplements ==
  SavesInv /\ SavesInv' /\ [Next]_vars => [Atomic!Next]_(Atomic!vars)
<1> SUFFICES ASSUME SavesInv, SavesInv', [Next]_vars
             PROVE  \/ Atomic!Next
                    \/ UNCHANGED <<issued, keyOf, absOutcome, absSaved>>
  BY DEF Atomic!vars, absOutcome, absSaved
<1> USE DEF Atomic!Write, Atomic!NoWrite
<1>1. ASSUME NEW k \in Keys, Call(k) PROVE Atomic!Accept(k)
  <2>1. issued + 1 \in Write /\ issued \in Nat
    BY <1>1, StoreAssumption DEF Call, SavesInv, TypeOK, Write
  <2>2. \A v \in Write : OutcomeOf(v)' =
                           IF v = issued + 1 THEN "pending" ELSE OutcomeOf(v)
    BY <1>1, <2>1 DEF Call, SavesInv, TypeOK, OutcomeOf, Settled
  <2>3. absOutcome' = [absOutcome EXCEPT ![issued + 1] = "pending"]
    BY <2>1, <2>2 DEF absOutcome
  <2>4. absSaved' = absSaved
    BY <1>1 DEF Call, absSaved, SavedOf
  <2> QED
    BY <1>1, <2>3, <2>4 DEF Call, Atomic!Accept, absOutcome, absSaved
<1>2. ASSUME NEW w \in Write, Start(w)
      PROVE  UNCHANGED <<issued, keyOf, absOutcome, absSaved>>
  BY <1>2, InvisibleStep DEF Start, MayStart, Begun
<1>3. ASSUME NEW w \in Write, step[w] \in Begun, NEW s \in {"ok", "failed"},
             step' = [step EXCEPT ![w] = s], UNCHANGED <<issued, keyOf, file>>,
             s = "ok" <=> step[w] = "renamed"
      PROVE  Atomic!Next
  <2>1. w \in 1..issued /\ keyOf[w] \in Keys /\ w \in Nat
    BY <1>3, MadeCalls, StoreAssumption DEF Begun, Write
  <2>2. absSaved[keyOf[w]] = file[keyOf[w]].write
    BY <2>1, FilesAreWhole
  <2>3. CASE s = "ok" /\ step[w] = "renamed"
    <3>1. absSaved[keyOf[w]] >= w
      BY <2>1, <2>2, <2>3 DEF SavesInv, SaveIsOlder
    <3>2. Atomic!Acknowledge(w)
      BY <1>3, <2>3, <3>1, SettlingStep
      DEF Atomic!Acknowledge, absOutcome, absSaved
    <3> QED
      BY <3>2 DEF Atomic!Next, Write
  <2>4. CASE s = "failed" /\ step[w] # "renamed"
    <3>1. file[keyOf[w]].write \in Nat /\ file[keyOf[w]].write < w
      BY <1>3, <2>1, <2>4, StoreAssumption
      DEF SavesInv, SaveIsOlder, TypeOK, Begun
    <3>2. absSaved[keyOf[w]] # w
      BY <2>1, <2>2, <3>1
    <3>3. Atomic!Refuse(w)
      BY <1>3, <2>4, <3>2, SettlingStep DEF Atomic!Refuse, absOutcome, absSaved
    <3> QED
      BY <3>3 DEF Atomic!Next, Write
  <2> QED
    BY <1>3, <2>3, <2>4
<1>4. ASSUME NEW w \in Write, MakeDirectory(w)
      PROVE  Atomic!Next \/ UNCHANGED <<issued, keyOf, absOutcome, absSaved>>
  <2>1. CASE step' = [step EXCEPT ![w] = "writeFile"]
    BY <1>4, <2>1, InvisibleStep DEF MakeDirectory, Begun
  <2>2. CASE step' = [step EXCEPT ![w] = "failed"]
    BY <1>3, <1>4, <2>2 DEF MakeDirectory, Begun
  <2> QED
    BY <1>4, <2>1, <2>2 DEF MakeDirectory
<1>5. ASSUME NEW w \in Write, WriteTemporary(w)
      PROVE  UNCHANGED <<issued, keyOf, absOutcome, absSaved>>
  BY <1>5, InvisibleStep DEF WriteTemporary, Begun
<1>6. ASSUME NEW w \in Write, Rename(w)
      PROVE  Atomic!Next \/ UNCHANGED <<issued, keyOf, absOutcome, absSaved>>
  <2>1. CASE step' = [step EXCEPT ![w] = "unlink"] /\ UNCHANGED <<temp, file>>
    BY <1>6, <2>1, InvisibleStep DEF Rename, Begun
  <2>2. CASE /\ step' = [step EXCEPT ![w] = "renamed"]
             /\ file' = [file EXCEPT ![keyOf[w]] =
                           [write |-> w, whole |-> temp[w] = "whole"]]
    <3>1. w \in 1..issued /\ keyOf[w] \in Keys /\ w \in Nat
      BY <1>6, MadeCalls, StoreAssumption DEF Rename, Write
    <3>2. temp[w] = "whole" /\ file[keyOf[w]].write < w
      BY <1>6, <3>1 DEF Rename, SavesInv, SaveIsOlder
    <3>3. \A v \in Write : OutcomeOf(v)' = OutcomeOf(v)
      BY <1>6, <2>2 DEF Rename, SavesInv, TypeOK, OutcomeOf, Settled
    <3>4. absOutcome' = absOutcome
      BY <3>3 DEF absOutcome
    <3>5. absSaved = [k \in Keys |-> file[k].write]
      BY FilesAreWhole
    <3>6. \A k \in Keys : SavedOf(k)' = IF k = keyOf[w] THEN w ELSE file[k].write
      BY <2>2, <3>2 DEF SavesInv, TypeOK, SaveIsOlder, SavedOf
    <3>7. absSaved' = [absSaved EXCEPT ![keyOf[w]] = w]
      BY <3>5, <3>6 DEF absSaved
    <3>8. absOutcome[w] = "pending" /\ absSaved[keyOf[w]] < w
      BY <1>6, <3>1, <3>2, <3>5 DEF Rename, absOutcome, OutcomeOf, Settled
    <3>9. Atomic!Commit(w)
      BY <1>6, <3>4, <3>7, <3>8 DEF Rename, Atomic!Commit, absOutcome, absSaved
    <3> QED
      BY <3>9 DEF Atomic!Next, Write
  <2> QED
    BY <1>6, <2>1, <2>2 DEF Rename
<1>7. ASSUME NEW w \in Write, Fulfil(w) PROVE Atomic!Next
  BY <1>3, <1>7 DEF Fulfil, Begun
<1>8. ASSUME NEW w \in Write, RemoveTemporary(w) PROVE Atomic!Next
  BY <1>3, <1>8 DEF RemoveTemporary, Begun
<1>9. ASSUME NEW w \in Write, Cleanup(w)
      PROVE  UNCHANGED <<issued, keyOf, absOutcome, absSaved>>
  BY <1>9 DEF Cleanup, absOutcome, absSaved, OutcomeOf, SavedOf
<1>10. CASE Crash
  <2>1. \A v \in Write : OutcomeOf(v)' =
          IF OutcomeOf(v) = "pending" THEN "lost" ELSE OutcomeOf(v)
    BY <1>10 DEF Crash, SavesInv, TypeOK, Step, OutcomeOf, Begun, Settled
  <2>2. absOutcome' = [v \in Write |-> IF absOutcome[v] = "pending" THEN "lost"
                                       ELSE absOutcome[v]]
    BY <2>1 DEF absOutcome
  <2>3. absSaved' = absSaved
    BY <1>10 DEF Crash, absSaved, SavedOf
  <2>4. Atomic!Crash
    BY <1>10, <2>2, <2>3 DEF Crash, Atomic!Crash, absOutcome, absSaved, Write
  <2> QED
    BY <2>4 DEF Atomic!Next
<1>11. CASE UNCHANGED vars
  BY <1>11 DEF vars, absOutcome, absSaved, OutcomeOf, SavedOf
<1>12. ASSUME NEW k \in Keys, Atomic!Accept(k) PROVE Atomic!Next
  BY <1>12 DEF Atomic!Next
<1> QED
  BY <1>1, <1>2, <1>4, <1>5, <1>6, <1>7, <1>8, <1>9, <1>10, <1>11, <1>12
  DEF Next, Progress

(* The store implements the atomic saves the session host relies on: for   *)
(* its caller every write takes effect whole, in the order of the calls.   *)
THEOREM Implementation == Spec => ImplementsAtomicSaves
<1>1. Init => Atomic!Init
  BY DEF Init, Atomic!Init, OutcomeOf, SavedOf, NoWrite, Write,
     Atomic!Write, Atomic!NoWrite
<1>2. SavesInv /\ SavesInv' /\ [Next]_vars => [Atomic!Next]_(Atomic!vars)
  BY StepImplements
<1> QED
  BY <1>1, <1>2, SavesInvariance, PTL DEF Spec, ImplementsAtomicSaves, Atomic!Spec
-----------------------------------------------------------------------------
(***************************************************************************)
(* LocalGameLibrary.  Everything rests on the chain of mutations: one runs *)
(* at a time and the others wait (OneAtATime), so that what the running    *)
(* one has read is still the file (RunningKnowsTheFile).                   *)
(***************************************************************************)
Document == [JsonKeys -> Value]

LibraryTypes ==
  /\ json \in Document /\ data \in Document
  /\ mutations \in Seq(Calls)
  /\ reached \in [Calls -> {"none", "queued", "read", "written", "ok", "error"}]
  /\ key \in [Calls -> JsonKeys \union {NoneYet}]
  /\ value \in [Calls -> Value]
  /\ stored \subseteq Calls /\ takenBack \subseteq Calls
  /\ source \in [Calls -> Sources \union {NoSource}]
  /\ game \in [Calls -> Calls \union {NoCall}]
  /\ phase \in [Calls -> {"idle", "listing", "storing", "ok", "error", "lost"}]
  /\ knew \in [Calls -> SUBSET Calls]

(* A call is in the chain once, and all but the first wait. *)
OneAtATime ==
  /\ \A i, j \in 1..Len(mutations) : mutations[i] = mutations[j] => i = j
  /\ \A i \in 1..Len(mutations) :
       /\ reached[mutations[i]] \in {"queued", "read", "written"}
       /\ i > 1 => reached[mutations[i]] = "queued"

(* What the running mutation has read is the file, and what it has written *)
(* is that with its key changed.                                           *)
RunningKnowsTheFile ==
  \A c \in Calls : Running(c) =>
    /\ reached[c] \in {"read", "written"} => data = json
    /\ reached[c] = "written" => temporary = [data EXCEPT ![key[c]] = value[c]]

(* A mutation is ok when its document is the file, and a call says what    *)
(* its mutation says.                                                      *)
Outcomes ==
  \A c \in Calls :
    /\ reached[c] = "ok" <=> c \in stored
    /\ phase[c] = "ok" => reached[c] = "ok"
    /\ phase[c] = "error" => reached[c] \in {"none", "error"}
    /\ phase[c] \in {"idle", "listing"} => reached[c] = "none" /\ key[c] = NoneYet

(* A list of games that holds together, of calls that were made, for what  *)
(* the calls are about and how far they are.                               *)
Coherent(list, about, of, at) ==
  \A c \in list :
    /\ at[c] # "idle"
    /\ \/ about[c] # NoSource /\ \A d \in list : about[d] = about[c] => d = c
       \/ about[c] = NoSource /\ of[c] \in list

Lists ==
  /\ Coherent(json[LocalGames], source, game, phase)
  /\ Coherent(data[LocalGames], source, game, phase)
  /\ \A c \in Calls : key[c] = LocalGames => Coherent(value[c], source, game, phase)

(* The list belongs to library.json, and every mutation of that is of it.  *)
Documents ==
  \A c \in Calls :
    /\ key[c] = LocalGames \/ phase[c] = "listing" => document = "library.json"
    /\ document = "library.json" /\ reached[c] # "none" => key[c] = LocalGames

(* A change that was stored is in the list or was taken back; and a call   *)
(* that waits to store its list has in it what it knew, and itself.        *)
Kept ==
  /\ document = "library.json" => stored \subseteq json[LocalGames] \union takenBack
  /\ \A c \in Calls :
       /\ knew[c] \subseteq stored
       /\ key[c] = LocalGames => c \in value[c] /\ knew[c] \subseteq value[c] \union takenBack

LibraryInv == LibraryAssumption /\ LibraryTypes /\ OneAtATime /\ RunningKnowsTheFile
        /\ Outcomes /\ Lists /\ Documents /\ Kept

-----------------------------------------------------------------------------
(* Both files are empty, and no call was made. *)
LEMMA LibraryBegins == LibraryAssumption /\ LibraryInit => LibraryInv
<1> SUFFICES ASSUME LibraryAssumption, LibraryInit PROVE LibraryInv
  OBVIOUS
<1>0. /\ LibraryInit /\ StorageInit /\ LocalGames \in JsonKeys
  BY DEF LibraryInit, LibraryAssumption
<1>1. LibraryTypes
  BY <1>0 DEF LibraryInit, StorageInit, LibraryTypes, Document, Value, Empty, Absent
<1>2. OneAtATime /\ RunningKnowsTheFile
  BY <1>0 DEF StorageInit, OneAtATime, RunningKnowsTheFile, Running
<1>3. Outcomes
  BY <1>0 DEF LibraryInit, StorageInit, Outcomes
<1>4. Lists
  BY <1>0 DEF LibraryInit, StorageInit, Lists, Coherent, Empty, Absent
<1>5. Documents
  BY <1>0 DEF LibraryInit, StorageInit, Documents, NoneYet, LocalGames
<1>6. Kept
  BY <1>0 DEF LibraryInit, StorageInit, Kept, NoneYet, LocalGames
<1> QED
  BY <1>1, <1>2, <1>3, <1>4, <1>5, <1>6 DEF LibraryInv

(* A list holds together while its calls keep their source, their game and *)
(* the fact that they were made.                                           *)
LEMMA ListStays ==
  ASSUME NEW list, NEW about, NEW of, NEW at, NEW about2, NEW of2, NEW at2,
         Coherent(list, about, of, at),
         \A c \in list : about2[c] = about[c] /\ of2[c] = of[c] /\ at2[c] # "idle"
  PROVE  Coherent(list, about2, of2, at2)
  BY DEF Coherent

(* The call that joins the chain is new to it, and waits behind the rest.  *)
LEMMA JoinsTheChain ==
  ASSUME LibraryInv, NEW c \in Calls, NEW k \in JsonKeys, NEW v \in Value, Mutate(c, k, v)
  PROVE  /\ OneAtATime' /\ RunningKnowsTheFile'
         /\ mutations' \in Seq(Calls) /\ reached' = [reached EXCEPT ![c] = "queued"]
         /\ reached[c] = "none"
<1>1. /\ mutations' = Append(mutations, c) /\ reached' = [reached EXCEPT ![c] = "queued"]
      /\ reached[c] = "none" /\ UNCHANGED <<json, temporary, data>>
      /\ key' = [key EXCEPT ![c] = k] /\ value' = [value EXCEPT ![c] = v]
  BY DEF Mutate
<1>2. /\ mutations \in Seq(Calls) /\ OneAtATime /\ RunningKnowsTheFile
      /\ reached \in [Calls -> {"none", "queued", "read", "written", "ok", "error"}]
      /\ key \in [Calls -> JsonKeys \union {NoneYet}] /\ value \in [Calls -> Value]
  BY DEF LibraryInv, LibraryTypes
<1>3. mutations' \in Seq(Calls)
  BY <1>1, <1>2
<1>4. \A i \in 1..Len(mutations) : mutations[i] \in Calls /\ mutations[i] # c
  BY <1>1, <1>2 DEF OneAtATime
<1>5. /\ Len(mutations') = Len(mutations) + 1 /\ Len(mutations) \in Nat
      /\ mutations'[Len(mutations) + 1] = c
      /\ \A i \in 1..Len(mutations) : mutations'[i] = mutations[i]
  BY <1>1, <1>2
<1>6. OneAtATime'
  BY <1>1, <1>2, <1>4, <1>5 DEF OneAtATime
<1>7. RunningKnowsTheFile'
  <2> SUFFICES ASSUME NEW d \in Calls, Running(d)'
               PROVE  /\ reached'[d] \in {"read", "written"} => data' = json'
                      /\ reached'[d] = "written"
                           => temporary' = [data' EXCEPT ![key'[d]] = value'[d]]
    BY DEF RunningKnowsTheFile
  <2>1. CASE d = c
    BY <2>1, <1>1, <1>2
  <2>2. CASE d # c
    <3>1. mutations # <<>>
      BY <2>2, <1>1, <1>2 DEF Running
    <3>2. Running(d)
      BY <3>1, <1>1, <1>2, <1>5 DEF Running
    <3> QED
      BY <2>2, <3>2, <1>1, <1>2 DEF RunningKnowsTheFile
  <2> QED
    BY <2>1, <2>2
<1> QED
  BY <1>1, <1>3, <1>6, <1>7

(* The chain moves on to a call that has not begun. *)
LEMMA LeavesTheChain ==
  ASSUME LibraryInv, NEW c \in Calls, Running(c), NEW result \in {"ok", "error"}, Settle(c, result)
  PROVE  /\ OneAtATime' /\ RunningKnowsTheFile'
         /\ mutations' \in Seq(Calls) /\ reached' = [reached EXCEPT ![c] = result]
         /\ reached[c] \in {"queued", "read", "written"}
<1>1. mutations' = Tail(mutations) /\ reached' = [reached EXCEPT ![c] = result]
  BY DEF Settle
<1>2. /\ mutations \in Seq(Calls) /\ OneAtATime
      /\ reached \in [Calls -> {"none", "queued", "read", "written", "ok", "error"}]
  BY DEF LibraryInv, LibraryTypes
<1>3. /\ mutations # <<>> /\ mutations[1] = c /\ Len(mutations) \in Nat /\ Len(mutations) > 0
  BY <1>2 DEF Running
<1>4. /\ mutations' \in Seq(Calls) /\ Len(mutations') = Len(mutations) - 1
      /\ \A i \in 1..Len(mutations') : mutations'[i] = mutations[i + 1]
  BY <1>1, <1>2, <1>3
<1>5. \A i \in 1..Len(mutations') :
        /\ mutations'[i] \in Calls /\ mutations'[i] # c
        /\ reached[mutations'[i]] = "queued" /\ reached'[mutations'[i]] = "queued"
  <2> SUFFICES ASSUME NEW i \in 1..Len(mutations')
               PROVE  /\ mutations'[i] \in Calls /\ mutations'[i] # c
                      /\ reached[mutations'[i]] = "queued" /\ reached'[mutations'[i]] = "queued"
    OBVIOUS
  <2>1. i + 1 \in 1..Len(mutations) /\ i + 1 > 1 /\ i + 1 # 1 /\ 1 \in 1..Len(mutations)
    BY <1>3, <1>4
  <2>2. mutations'[i] = mutations[i + 1] /\ mutations[i + 1] \in Calls
    BY <2>1, <1>2, <1>4
  <2>3. mutations[i + 1] # mutations[1] /\ reached[mutations[i + 1]] = "queued"
    BY <2>1, <1>2 DEF OneAtATime
  <2> QED
    BY <2>2, <2>3, <1>1, <1>2, <1>3
<1>6. \A i, j \in 1..Len(mutations') : mutations'[i] = mutations'[j] => i = j
  <2> SUFFICES ASSUME NEW i \in 1..Len(mutations'), NEW j \in 1..Len(mutations'),
                      mutations'[i] = mutations'[j]
               PROVE  i = j
    OBVIOUS
  <2>1. /\ i + 1 \in 1..Len(mutations) /\ j + 1 \in 1..Len(mutations)
        /\ mutations[i + 1] = mutations[j + 1]
    BY <1>3, <1>4
  <2>2. i + 1 = j + 1
    BY <2>1, <1>2 DEF OneAtATime
  <2> QED
    BY <2>2
<1>7. OneAtATime'
  BY <1>5, <1>6 DEF OneAtATime
<1>8. RunningKnowsTheFile'
  <2> SUFFICES ASSUME NEW d \in Calls, Running(d)'
               PROVE  reached'[d] \notin {"read", "written"}
    BY DEF RunningKnowsTheFile
  <2>1. mutations' # <<>> /\ d = mutations'[1] /\ 1 \in 1..Len(mutations')
    BY <1>4 DEF Running
  <2> QED
    BY <2>1, <1>5
<1>9. reached[c] \in {"queued", "read", "written"}
  BY <1>2, <1>3 DEF OneAtATime
<1> QED
  BY <1>1, <1>4, <1>7, <1>8, <1>9

(* What the lists rest on when a call changes no list: the calls in them   *)
(* were made, and keep what they are about.                                *)
LEMMA ListsStay ==
  ASSUME LibraryInv, UNCHANGED <<json, data>>,
         \A c \in Calls : phase[c] # "idle" =>
           source'[c] = source[c] /\ game'[c] = game[c] /\ phase'[c] # "idle",
         \A c \in Calls : key'[c] = LocalGames =>
           key[c] = LocalGames /\ value'[c] = value[c]
  PROVE  Lists'
<1>1. /\ Lists /\ LocalGames \in JsonKeys
      /\ json \in [JsonKeys -> SUBSET Calls] /\ data \in [JsonKeys -> SUBSET Calls]
      /\ value \in [Calls -> SUBSET Calls]
  BY DEF LibraryInv, LibraryTypes, LibraryAssumption, Document, Value
<1>2. \A list \in SUBSET Calls : Coherent(list, source, game, phase)
                                  => Coherent(list, source', game', phase')
  BY DEF Coherent
<1> QED
  BY <1>1, <1>2 DEF Lists

(* A call of the library begins: an add, or an update of a game. *)
LEMMA CallBegins ==
  ASSUME LibraryInv, NEW c \in Calls, Begin(c), UNCHANGED storageVars, To(c, "listing"),
         document = "library.json",
         NEW s \in Sources \union {NoSource}, source' = [source EXCEPT ![c] = s],
         NEW g \in Calls \union {NoCall}, game' = [game EXCEPT ![c] = g]
  PROVE  LibraryInv'
<1>1. /\ UNCHANGED <<json, temporary, mutations, reached, key, value, data, stored>>
      /\ UNCHANGED <<document, takenBack>> /\ phase[c] = "idle"
      /\ phase' = [phase EXCEPT ![c] = "listing"]
      /\ knew' = [knew EXCEPT ![c] = {d \in Calls : phase[d] = "ok"}]
  BY DEF Begin, To, storageVars
<1>2. LibraryTypes /\ Outcomes /\ Lists /\ Documents /\ Kept
  BY DEF LibraryInv
<1>3. LibraryTypes'
  BY <1>1, <1>2 DEF LibraryTypes
<1>4. OneAtATime' /\ RunningKnowsTheFile'
  BY <1>1 DEF LibraryInv, OneAtATime, RunningKnowsTheFile, Running
<1>5. Outcomes'
  BY <1>1, <1>2 DEF LibraryTypes, Outcomes
<1>6. Lists'
  <2>1. \A d \in Calls : phase[d] # "idle" =>
           source'[d] = source[d] /\ game'[d] = game[d] /\ phase'[d] # "idle"
    BY <1>1, <1>2 DEF LibraryTypes
  <2> QED
    BY <2>1, <1>1, ListsStay
<1>7. Documents'
  BY <1>1, <1>2 DEF LibraryTypes, Documents
<1>8. Kept'
  <2>1. key[c] # LocalGames
    BY <1>1, <1>2 DEF Outcomes, NoneYet, LocalGames
  <2>2. \A d \in Calls : phase[d] = "ok" => d \in stored
    BY <1>2 DEF Outcomes
  <2> QED
    BY <2>1, <2>2, <1>1, <1>2 DEF LibraryTypes, Kept
<1> QED
  BY <1>3, <1>4, <1>5, <1>6, <1>7, <1>8 DEF LibraryInv, LibraryAssumption

(* A preference is written or removed: its key is not that of the games. *)
LEMMA PreferenceSet ==
  ASSUME LibraryInv, NEW c \in Calls, NEW k \in Preferences, NEW v \in {{c}, Absent},
         SetPreference(c, k, v)
  PROVE  LibraryInv'
<1>0. /\ document = "preferences.json" /\ Begin(c) /\ Mutate(c, k, v) /\ To(c, "storing")
      /\ UNCHANGED <<source, game>>
  BY DEF SetPreference
<1>1. /\ UNCHANGED <<json, temporary, data, stored, document, takenBack, source, game>>
      /\ key' = [key EXCEPT ![c] = k] /\ value' = [value EXCEPT ![c] = v]
      /\ phase[c] = "idle" /\ phase' = [phase EXCEPT ![c] = "storing"]
      /\ knew' = [knew EXCEPT ![c] = {d \in Calls : phase[d] = "ok"}]
  BY <1>0 DEF Begin, To, Mutate
<1>2. LibraryTypes /\ Outcomes /\ Lists /\ Documents /\ Kept
  BY DEF LibraryInv
<1>3. k \in JsonKeys /\ k # LocalGames /\ v \in Value
  BY DEF LibraryInv, LibraryAssumption, Value, Absent
<1>4. /\ OneAtATime' /\ RunningKnowsTheFile' /\ mutations' \in Seq(Calls)
      /\ reached' = [reached EXCEPT ![c] = "queued"] /\ reached[c] = "none"
  BY <1>0, <1>3, JoinsTheChain
<1>5. LibraryTypes'
  BY <1>1, <1>2, <1>3, <1>4 DEF LibraryTypes
<1>6. Outcomes'
  BY <1>1, <1>2, <1>4 DEF LibraryTypes, Outcomes
<1>7. Lists'
  <2>1. \A d \in Calls : phase[d] # "idle" =>
           source'[d] = source[d] /\ game'[d] = game[d] /\ phase'[d] # "idle"
    BY <1>1, <1>2 DEF LibraryTypes
  <2>2. \A d \in Calls : key'[d] = LocalGames =>
           key[d] = LocalGames /\ value'[d] = value[d]
    BY <1>1, <1>2, <1>3 DEF LibraryTypes
  <2> QED
    BY <2>1, <2>2, <1>1, ListsStay
<1>8. Documents'
  BY <1>0, <1>1, <1>2, <1>3 DEF LibraryTypes, Documents
<1>9. Kept'
  <2>1. \A d \in Calls : phase[d] = "ok" => d \in stored
    BY <1>2 DEF Outcomes
  <2> QED
    BY <2>1, <1>0, <1>1, <1>2, <1>3 DEF LibraryTypes, Kept
<1> QED
  BY <1>4, <1>5, <1>6, <1>7, <1>8, <1>9 DEF LibraryInv, LibraryAssumption

(* A call whose list was read, and that is refused, or whose list could    *)
(* not be read: it fails.                                                  *)
LEMMA CallFails ==
  ASSUME LibraryInv, NEW c \in Calls, phase[c] = "listing", To(c, "error"),
         UNCHANGED <<storageVars, document, source, game, knew, takenBack>>
  PROVE  LibraryInv'
<1>1. /\ UNCHANGED <<json, temporary, mutations, reached, key, value, data, stored>>
      /\ UNCHANGED <<document, source, game, knew, takenBack>>
      /\ phase' = [phase EXCEPT ![c] = "error"]
  BY DEF To, storageVars
<1>2. LibraryTypes /\ Outcomes /\ Documents /\ Kept
  BY DEF LibraryInv
<1>3. LibraryTypes'
  BY <1>1, <1>2 DEF LibraryTypes
<1>4. OneAtATime' /\ RunningKnowsTheFile'
  BY <1>1 DEF LibraryInv, OneAtATime, RunningKnowsTheFile, Running
<1>5. Outcomes'
  BY <1>1, <1>2 DEF LibraryTypes, Outcomes
<1>6. Lists'
  <2>1. \A d \in Calls : phase[d] # "idle" =>
           source'[d] = source[d] /\ game'[d] = game[d] /\ phase'[d] # "idle"
    BY <1>1, <1>2 DEF LibraryTypes
  <2> QED
    BY <2>1, <1>1, ListsStay
<1>7. Documents' /\ Kept'
  BY <1>1, <1>2 DEF LibraryTypes, Documents, Kept
<1> QED
  BY <1>3, <1>4, <1>5, <1>6, <1>7 DEF LibraryInv, LibraryAssumption

(* The list that a call writes back holds together: the call was not       *)
(* refused for the list it has read.                                       *)
LEMMA NewListHolds ==
  ASSUME NEW list, NEW c, NEW about, NEW of, NEW at,
         Coherent(list, about, of, at), at[c] # "idle",
         about[c] # NoSource =>
           ~\E d \in list : about[d] # NoSource /\ about[d] = about[c],
         about[c] = NoSource => of[c] \in list
  PROVE  Coherent(list \union {c}, about, of, at)
  BY DEF Coherent

(* A call whose list was read writes it back with its change. *)
LEMMA ListWrittenBack ==
  ASSUME LibraryInv, NEW c \in Calls, phase[c] = "listing", ~Refused(c, json[LocalGames]),
         Mutate(c, LocalGames, json[LocalGames] \union {c}), To(c, "storing"),
         UNCHANGED <<document, source, game, knew, takenBack>>
  PROVE  LibraryInv'
<1> DEFINE v == json[LocalGames] \union {c}
<1>1. /\ UNCHANGED <<json, temporary, data, stored, document, source, game, knew, takenBack>>
      /\ key' = [key EXCEPT ![c] = LocalGames] /\ value' = [value EXCEPT ![c] = v]
      /\ phase' = [phase EXCEPT ![c] = "storing"]
  BY DEF To, Mutate
<1>2. LibraryTypes /\ Outcomes /\ Lists /\ Documents /\ Kept
  BY DEF LibraryInv
<1>3. LocalGames \in JsonKeys /\ v \in Value /\ v \subseteq Calls
      /\ json[LocalGames] \subseteq Calls /\ data[LocalGames] \subseteq Calls
      /\ \A d \in Calls : value[d] \subseteq Calls
  BY <1>2 DEF LibraryInv, LibraryAssumption, LibraryTypes, Document, Value
<1>4. /\ OneAtATime' /\ RunningKnowsTheFile' /\ mutations' \in Seq(Calls)
      /\ reached' = [reached EXCEPT ![c] = "queued"] /\ reached[c] = "none"
  BY <1>3, JoinsTheChain
<1>5. LibraryTypes'
  BY <1>1, <1>2, <1>3, <1>4 DEF LibraryTypes
<1>6. Outcomes'
  BY <1>1, <1>2, <1>4 DEF LibraryTypes, Outcomes
<1>7. Lists'
  <2>1. Coherent(v, source, game, phase)
    <3>1. Coherent(json[LocalGames], source, game, phase)
      BY <1>2 DEF Lists
    <3>2. /\ source[c] # NoSource => ~\E d \in json[LocalGames] :
                source[d] # NoSource /\ source[d] = source[c]
          /\ source[c] = NoSource => game[c] \in json[LocalGames]
      BY <1>3 DEF Refused, Adds
    <3> QED
      BY <3>1, <3>2, NewListHolds
  <2>2. \A list \in SUBSET Calls : Coherent(list, source, game, phase)
                                   => Coherent(list, source', game', phase')
    BY <1>1, <1>2 DEF Coherent, LibraryTypes
  <2>3. Coherent(v, source', game', phase')
    BY <2>1, <2>2, <1>3
  <2>4. /\ Coherent(json'[LocalGames], source', game', phase')
        /\ Coherent(data'[LocalGames], source', game', phase')
    BY <2>2, <1>1, <1>2, <1>3 DEF Lists
  <2>5. ASSUME NEW d \in Calls, key'[d] = LocalGames
        PROVE  Coherent(value'[d], source', game', phase')
    <3>1. CASE d = c
      BY <3>1, <2>3, <1>1, <1>2 DEF LibraryTypes
    <3>2. CASE d # c
      BY <3>2, <2>5, <2>2, <1>1, <1>2, <1>3 DEF LibraryTypes, Lists
    <3> QED
      BY <3>1, <3>2
  <2> QED
    BY <2>4, <2>5 DEF Lists
<1>8. Documents'
  BY <1>1, <1>2, <1>4 DEF LibraryTypes, Documents
<1>9. Kept'
  <2>1. stored \subseteq json[LocalGames] \union takenBack /\ knew[c] \subseteq stored
    BY <1>2 DEF Documents, Kept
  <2>2. c \in v /\ knew[c] \subseteq v \union takenBack
    BY <2>1
  <2> HIDE DEF v
  <2>3. ASSUME NEW d \in Calls
        PROVE  /\ knew'[d] \subseteq stored'
               /\ key'[d] = LocalGames =>
                    d \in value'[d] /\ knew'[d] \subseteq value'[d] \union takenBack'
    <3>1. CASE d = c
      <4>1. value'[d] = v
        BY <3>1, <1>1, <1>2 DEF LibraryTypes
      <4> QED
        BY <4>1, <3>1, <2>1, <2>2, <1>1
    <3>2. CASE d # c
      BY <3>2, <1>1, <1>2 DEF LibraryTypes, Kept
    <3> QED
      BY <3>1, <3>2
  <2> QED
    BY <2>3, <1>1, <1>2 DEF Kept
<1> QED
  BY <1>4, <1>5, <1>6, <1>7, <1>8, <1>9 DEF LibraryInv, LibraryAssumption

(* A call says what its mutation says. *)
LEMMA CallAnswered ==
  ASSUME LibraryInv, NEW c \in Calls, Answered(c)
  PROVE  LibraryInv'
<1>1. /\ UNCHANGED <<json, temporary, mutations, reached, key, value, data, stored>>
      /\ UNCHANGED <<document, source, game, knew, takenBack>>
      /\ phase[c] = "storing" /\ reached[c] \in {"ok", "error"}
      /\ phase' = [phase EXCEPT ![c] = reached[c]]
  BY DEF Answered, To, storageVars
<1>2. LibraryTypes /\ Outcomes /\ Documents /\ Kept
  BY DEF LibraryInv
<1>3. LibraryTypes'
  BY <1>1, <1>2 DEF LibraryTypes
<1>4. OneAtATime' /\ RunningKnowsTheFile'
  BY <1>1 DEF LibraryInv, OneAtATime, RunningKnowsTheFile, Running
<1>5. Outcomes'
  BY <1>1, <1>2 DEF LibraryTypes, Outcomes
<1>6. Lists'
  <2>1. \A d \in Calls : phase[d] # "idle" =>
           source'[d] = source[d] /\ game'[d] = game[d] /\ phase'[d] # "idle"
    BY <1>1, <1>2 DEF LibraryTypes
  <2> QED
    BY <2>1, <1>1, ListsStay
<1>7. Documents' /\ Kept'
  BY <1>1, <1>2 DEF LibraryTypes, Documents, Kept
<1> QED
  BY <1>3, <1>4, <1>5, <1>6, <1>7 DEF LibraryInv, LibraryAssumption

(* The running mutation fails: the chain moves on, and nothing changes in  *)
(* the file.                                                               *)
LEMMA MutationFails ==
  ASSUME LibraryInv, NEW c \in Calls, Running(c), Settle(c, "error"),
         UNCHANGED <<json, data, key, value, stored>>,
         UNCHANGED <<document, source, game, phase, knew, takenBack>>
  PROVE  LibraryInv'
<1>1. /\ OneAtATime' /\ RunningKnowsTheFile' /\ mutations' \in Seq(Calls)
      /\ reached' = [reached EXCEPT ![c] = "error"] /\ reached[c] \in {"queued", "read", "written"}
  BY LeavesTheChain
<1>2. LibraryTypes /\ Outcomes /\ Lists /\ Documents /\ Kept
  BY DEF LibraryInv
<1>3. LibraryTypes'
  BY <1>1, <1>2 DEF LibraryTypes
<1>4. Outcomes'
  BY <1>1, <1>2 DEF LibraryTypes, Outcomes
<1>5. Lists' /\ Kept'
  BY <1>2 DEF Lists, Kept
<1>6. Documents'
  BY <1>1, <1>2 DEF LibraryTypes, Documents
<1> QED
  BY <1>1, <1>3, <1>4, <1>5, <1>6 DEF LibraryInv, LibraryAssumption

(* The running mutation reads the file, or cannot. *)
LEMMA DataRead ==
  ASSUME LibraryInv, NEW c \in Calls, ReadData(c),
         UNCHANGED <<document, source, game, phase, knew, takenBack>>
  PROVE  LibraryInv'
<1>1. /\ Running(c) /\ reached[c] = "queued"
      /\ UNCHANGED <<json, temporary, key, value, stored>>
  BY DEF ReadData
<1>2. LibraryTypes /\ OneAtATime /\ RunningKnowsTheFile /\ Outcomes /\ Lists /\ Documents /\ Kept
  BY DEF LibraryInv
<1>3. CASE data' = json /\ reached' = [reached EXCEPT ![c] = "read"] /\ UNCHANGED mutations
  <2>1. LibraryTypes'
    BY <1>1, <1>2, <1>3 DEF LibraryTypes
  <2>2. /\ mutations # <<>> /\ mutations[1] = c /\ Len(mutations) \in Nat /\ Len(mutations) > 0
        /\ \A i \in 1..Len(mutations) : mutations[i] \in Calls
    BY <1>1, <1>2 DEF Running, LibraryTypes
  <2>3. OneAtATime'
    BY <2>2, <1>2, <1>3 DEF LibraryTypes, OneAtATime
  <2>4. RunningKnowsTheFile'
    BY <1>1, <1>2, <1>3 DEF LibraryTypes, RunningKnowsTheFile, Running
  <2>5. Outcomes'
    BY <1>1, <1>2, <1>3 DEF LibraryTypes, Outcomes
  <2>6. Lists'
    BY <1>1, <1>2, <1>3 DEF Lists
  <2>7. Documents'
    BY <1>1, <1>2, <1>3 DEF LibraryTypes, Documents
  <2>8. Kept'
    BY <1>1, <1>2, <1>3 DEF Kept
  <2> QED
    BY <2>1, <2>3, <2>4, <2>5, <2>6, <2>7, <2>8 DEF LibraryInv, LibraryAssumption
<1>4. CASE Settle(c, "error") /\ UNCHANGED data
  <2>1. UNCHANGED <<json, data, key, value, stored, temporary>>
    BY <1>1, <1>4
  <2> QED
    BY <2>1, <1>1, <1>4, MutationFails
<1> QED
  BY <1>3, <1>4 DEF ReadData

(* The running mutation has written the temporary file, or could not. *)
LEMMA TemporaryWritten ==
  ASSUME LibraryInv, NEW c \in Calls, WriteDocument(c),
         UNCHANGED <<document, source, game, phase, knew, takenBack>>
  PROVE  LibraryInv'
<1>1. /\ Running(c) /\ reached[c] = "read"
      /\ UNCHANGED <<json, data, key, value, stored>>
  BY DEF WriteDocument
<1>2. LibraryTypes /\ OneAtATime /\ RunningKnowsTheFile /\ Outcomes /\ Lists /\ Documents /\ Kept
  BY DEF LibraryInv
<1>3. CASE /\ temporary' = [data EXCEPT ![key[c]] = value[c]]
           /\ reached' = [reached EXCEPT ![c] = "written"] /\ UNCHANGED mutations
  <2>1. LibraryTypes'
    BY <1>1, <1>2, <1>3 DEF LibraryTypes
  <2>2. /\ mutations # <<>> /\ mutations[1] = c /\ Len(mutations) \in Nat /\ Len(mutations) > 0
        /\ \A i \in 1..Len(mutations) : mutations[i] \in Calls
    BY <1>1, <1>2 DEF Running, LibraryTypes
  <2>3. OneAtATime'
    BY <2>2, <1>2, <1>3 DEF LibraryTypes, OneAtATime
  <2>4. RunningKnowsTheFile'
    BY <1>1, <1>2, <1>3 DEF LibraryTypes, RunningKnowsTheFile, Running
  <2>5. Outcomes'
    BY <1>1, <1>2, <1>3 DEF LibraryTypes, Outcomes
  <2>6. Lists' /\ Kept'
    BY <1>1, <1>2 DEF Lists, Kept
  <2>7. Documents'
    BY <1>1, <1>2, <1>3 DEF LibraryTypes, Documents
  <2> QED
    BY <2>1, <2>3, <2>4, <2>5, <2>6, <2>7 DEF LibraryInv, LibraryAssumption
<1>4. CASE Settle(c, "error")
  BY <1>1, <1>4, MutationFails
<1> QED
  BY <1>3, <1>4 DEF WriteDocument

(* A document that replaces the file: what was in the list and is not in   *)
(* the new one was taken back, and the rest of what was stored is in it.   *)
LEMMA Renamed ==
  ASSUME LibraryInv, NEW c \in Calls, RenameDocument(c), json' = temporary,
         stored' = stored \union {c}, Settle(c, "ok"),
         takenBack' = takenBack \union (json[LocalGames] \ json'[LocalGames]),
         UNCHANGED <<document, source, game, phase, knew>>
  PROVE  LibraryInv' /\ json' = [json EXCEPT ![key[c]] = value[c]]
<1>1. /\ Running(c) /\ reached[c] = "written"
      /\ UNCHANGED <<temporary, key, value, data>>
  BY DEF RenameDocument
<1>2. LibraryTypes /\ OneAtATime /\ RunningKnowsTheFile /\ Outcomes /\ Lists /\ Documents /\ Kept
  BY DEF LibraryInv
<1>3. /\ OneAtATime' /\ RunningKnowsTheFile' /\ mutations' \in Seq(Calls)
      /\ reached' = [reached EXCEPT ![c] = "ok"]
  BY <1>1, LeavesTheChain
<1>4. LocalGames \in JsonKeys
  BY DEF LibraryInv, LibraryAssumption
<1>5. json' = [json EXCEPT ![key[c]] = value[c]]
  BY <1>1, <1>2 DEF RunningKnowsTheFile
<1>6. json' \in Document
  BY <1>5, <1>2 DEF LibraryTypes, Document
<1>7. LibraryTypes'
  <2>1. takenBack' \subseteq Calls /\ stored' \subseteq Calls
    BY <1>2, <1>4 DEF LibraryTypes, Document, Value
  <2> QED
    BY <2>1, <1>1, <1>2, <1>3, <1>6 DEF LibraryTypes
<1>8. Outcomes'
  BY <1>1, <1>2, <1>3 DEF LibraryTypes, Outcomes
<1>9. /\ key[c] = LocalGames => json'[LocalGames] = value[c]
      /\ key[c] # LocalGames => json'[LocalGames] = json[LocalGames]
  BY <1>2, <1>4, <1>5 DEF LibraryTypes, Document
<1>10. Lists'
  BY <1>1, <1>2, <1>9 DEF Lists
<1>11. Documents'
  BY <1>1, <1>2, <1>3 DEF LibraryTypes, Documents
<1>12. Kept'
  <2>1. ASSUME document = "library.json"
        PROVE  stored' \subseteq json'[LocalGames] \union takenBack'
    <3>1. key[c] = LocalGames
      BY <2>1, <1>1, <1>2 DEF Documents
    <3>2. c \in json'[LocalGames]
      BY <3>1, <1>2, <1>9 DEF Kept
    <3>3. stored \subseteq json[LocalGames] \union takenBack
      BY <2>1, <1>2 DEF Kept
    <3> QED
      BY <3>2, <3>3
  <2>2. \A d \in Calls :
          /\ knew[d] \subseteq stored'
          /\ key[d] = LocalGames => d \in value[d] /\ knew[d] \subseteq value[d] \union takenBack'
    BY <1>2 DEF Kept
  <2> QED
    BY <2>1, <2>2, <1>1 DEF Kept
<1> QED
  BY <1>3, <1>5, <1>7, <1>8, <1>10, <1>11, <1>12 DEF LibraryInv, LibraryAssumption

(* A step of a mutation. *)
LEMMA Worked ==
  ASSUME LibraryInv, NEW c \in Calls, Work(c)
  PROVE  LibraryInv'
<1>1. /\ UNCHANGED <<document, source, game, phase, knew>>
      /\ takenBack' = takenBack \union (json[LocalGames] \ json'[LocalGames])
  BY DEF Work
<1>2. CASE UNCHANGED json
  <2>1. UNCHANGED takenBack
    BY <1>1, <1>2
  <2>2. CASE ReadData(c)
    BY <2>1, <2>2, <1>1, DataRead
  <2>3. CASE WriteDocument(c)
    BY <2>1, <2>3, <1>1, TemporaryWritten
  <2>4. CASE RenameDocument(c) /\ Settle(c, "error") /\ UNCHANGED stored
    BY <2>1, <2>4, <1>1, <1>2, MutationFails DEF RenameDocument
  <2>5. CASE RenameDocument(c) /\ json' = temporary /\ stored' = stored \union {c} /\ Settle(c, "ok")
    BY <2>5, <1>1, Renamed
  <2> QED
    BY <2>2, <2>3, <2>4, <2>5 DEF Work, StorageStep, RenameDocument
<1>3. CASE ~UNCHANGED json
  <2>1. RenameDocument(c) /\ json' = temporary /\ stored' = stored \union {c} /\ Settle(c, "ok")
    BY <1>3 DEF Work, StorageStep, ReadData, WriteDocument, RenameDocument
  <2> QED
    BY <2>1, <1>1, Renamed
<1> QED
  BY <1>2, <1>3

(* The process ends: the chain is empty again, and the file is what it was. *)
LEMMA Crashed ==
  ASSUME LibraryInv, LibraryCrash
  PROVE  LibraryInv'
<1>1. /\ mutations' = <<>> /\ data' = Empty
      /\ reached' = [c \in Calls |-> IF reached[c] \in {"ok", "error"} THEN reached[c] ELSE "none"]
      /\ phase' = [c \in Calls |->
           IF phase[c] \in {"listing", "storing"} THEN "lost" ELSE phase[c]]
      /\ UNCHANGED <<json, key, value, stored, document, source, game, knew, takenBack>>
  BY DEF LibraryCrash, StorageCrash
<1>2. LibraryTypes /\ Outcomes /\ Lists /\ Documents /\ Kept /\ LocalGames \in JsonKeys
  BY DEF LibraryInv, LibraryAssumption
<1>3. LibraryTypes'
  BY <1>1, <1>2 DEF LibraryTypes, Document, Value, Empty, Absent
<1>4. OneAtATime' /\ RunningKnowsTheFile'
  BY <1>1 DEF OneAtATime, RunningKnowsTheFile, Running
<1>5. Outcomes'
  BY <1>1, <1>2 DEF LibraryTypes, Outcomes
<1>6. Lists'
  <2>1. \A list \in SUBSET Calls : Coherent(list, source, game, phase)
                                   => Coherent(list, source', game', phase')
    BY <1>1, <1>2 DEF Coherent, LibraryTypes
  <2>2. /\ json[LocalGames] \in SUBSET Calls
        /\ \A d \in Calls : value[d] \in SUBSET Calls
    BY <1>2 DEF LibraryTypes, Document, Value
  <2>3. Coherent(data'[LocalGames], source', game', phase')
    BY <1>1, <1>2 DEF Coherent, Empty, Absent
  <2> QED
    BY <2>1, <2>2, <2>3, <1>1, <1>2 DEF Lists
<1>7. Documents' /\ Kept'
  BY <1>1, <1>2 DEF LibraryTypes, Documents, Kept
<1> QED
  BY <1>3, <1>4, <1>5, <1>6, <1>7 DEF LibraryInv, LibraryAssumption

(* Every step of the library keeps the invariant. *)
LEMMA LibraryStep == LibraryInv /\ [LibraryNext]_libraryVars => LibraryInv'
<1> SUFFICES ASSUME LibraryInv, [LibraryNext]_libraryVars PROVE LibraryInv'
  OBVIOUS
<1>1. ASSUME NEW c \in Calls, NEW s \in Sources, Add(c, s) PROVE LibraryInv'
  <2>1. game' = [game EXCEPT ![c] = game[c]] /\ game[c] \in Calls \union {NoCall}
    BY <1>1 DEF Add, LibraryInv, LibraryTypes
  <2> QED
    BY <2>1, <1>1, CallBegins DEF Add
<1>2. ASSUME NEW c \in Calls, NEW g \in Adds, Update(c, g) PROVE LibraryInv'
  <2>1. source' = [source EXCEPT ![c] = source[c]] /\ source[c] \in Sources \union {NoSource}
    BY <1>2 DEF Update, LibraryInv, LibraryTypes
  <2>2. g \in Calls
    BY DEF Adds
  <2> QED
    BY <2>1, <2>2, <1>2, CallBegins DEF Update
<1>3. ASSUME NEW c \in Calls, NEW k \in Preferences, NEW v \in {{c}, Absent},
             SetPreference(c, k, v)
      PROVE  LibraryInv'
  BY <1>3, PreferenceSet
<1>4. ASSUME NEW c \in Calls, Listed(c) PROVE LibraryInv'
  BY <1>4, ListWrittenBack, CallFails DEF Listed
<1>5. ASSUME NEW c \in Calls, NotListed(c) PROVE LibraryInv'
  BY <1>5, CallFails DEF NotListed
<1>6. ASSUME NEW c \in Calls, Answered(c) PROVE LibraryInv'
  BY <1>6, CallAnswered
<1>7. ASSUME NEW c \in Calls, Work(c) PROVE LibraryInv'
  BY <1>7, Worked
<1>8. CASE LibraryCrash
  BY <1>8, Crashed
<1>9. CASE UNCHANGED libraryVars
  BY <1>9 DEF libraryVars, storageVars, LibraryInv, LibraryAssumption, LibraryTypes, OneAtATime,
              RunningKnowsTheFile, Running, Outcomes, Lists, Documents, Kept
<1> QED
  BY <1>1, <1>2, <1>3, <1>4, <1>5, <1>6, <1>7, <1>8, <1>9 DEF LibraryNext

LEMMA LibraryInvariance == LibraryAssumption /\ LibrarySpec => []LibraryInv
<1>1. LibraryAssumption /\ LibraryInit => LibraryInv
  BY LibraryBegins
<1>2. LibraryInv /\ [LibraryNext]_libraryVars => LibraryInv'
  BY LibraryStep
<1> QED
  BY <1>1, <1>2, PTL DEF LibrarySpec

-----------------------------------------------------------------------------
(* Whatever operations overlap, fail or are cut off by a crash, no list    *)
(* has a ROM file twice or holds what belongs to a game it does not hold.  *)
THEOREM ListStaysConsistent == LibraryAssumption /\ LibrarySpec => []ListIsConsistent
<1>1. LibraryInv => ListIsConsistent
  <2> SUFFICES ASSUME LibraryInv PROVE ListIsConsistent
    OBVIOUS
  <2>1. json[LocalGames] \subseteq Calls /\ Coherent(json[LocalGames], source, game, phase)
    BY DEF LibraryInv, LibraryTypes, LibraryAssumption, Document, Value, Lists
  <2> QED
    BY <2>1 DEF Coherent, ListIsConsistent, Adds
<1> QED
  BY <1>1, LibraryInvariance, PTL

(* A call that succeeded was on disk, and one that failed never was. *)
THEOREM OutcomesAreTrue == LibraryAssumption /\ LibrarySpec => []OutcomeIsTrue
<1>1. LibraryInv => OutcomeIsTrue
  BY DEF LibraryInv, Outcomes, OutcomeIsTrue
<1> QED
  BY <1>1, LibraryInvariance, PTL

(* Operations that follow one another lose nothing: the list that is       *)
(* written contains what its operation knew.                               *)
THEOREM SequencesLoseNothing == LibraryAssumption /\ LibrarySpec => SequenceLosesNothing
<1> DEFINE Loses == \A c, d \in Calls :
                      /\ c \in json[LocalGames] /\ c \notin json'[LocalGames]
                      /\ d \in stored' \ stored
                      => c \notin knew[d] \/ c \in takenBack
<1>1. LibraryInv /\ [LibraryNext]_libraryVars => Loses \/ UNCHANGED libraryVars
  <2> SUFFICES ASSUME LibraryInv, LibraryNext, NEW c \in Calls, NEW d \in Calls,
                      c \in json[LocalGames], c \notin json'[LocalGames],
                      d \in stored' \ stored
               PROVE  c \notin knew[d] \/ c \in takenBack
    OBVIOUS
  <2>1. ASSUME NEW e \in Calls, UNCHANGED storageVars PROVE FALSE
    BY <2>1 DEF storageVars
  <2>2. ~LibraryCrash /\ \A e \in Calls, k \in JsonKeys, v \in Value : ~Mutate(e, k, v)
    BY DEF LibraryCrash, StorageCrash, Mutate
  <2>3. PICK e \in Calls : Work(e)
    BY <2>1, <2>2 DEF LibraryNext, Add, Update, SetPreference, Listed, NotListed, Answered,
                      Mutate, storageVars
  <2>4. /\ RenameDocument(e) /\ json' = temporary /\ stored' = stored \union {e} /\ Settle(e, "ok")
    BY <2>3 DEF Work, StorageStep, ReadData, WriteDocument, RenameDocument
  <2>5. d = e /\ json' = [json EXCEPT ![key[e]] = value[e]]
    BY <2>3, <2>4, Renamed DEF Work
  <2>6. LocalGames \in JsonKeys /\ json \in [JsonKeys -> SUBSET Calls]
    BY DEF LibraryInv, LibraryAssumption, LibraryTypes, Document, Value
  <2>7. key[d] = LocalGames /\ json'[LocalGames] = value[d]
    BY <2>5, <2>6
  <2>8. knew[d] \subseteq value[d] \union takenBack
    BY <2>7 DEF LibraryInv, Kept
  <2> QED
    BY <2>7, <2>8
<1>2. LibraryInv /\ [LibraryNext]_libraryVars => [Loses]_libraryVars
  BY <1>1
<1> QED
  BY <1>2, LibraryInvariance, PTL DEF LibrarySpec, SequenceLosesNothing
-----------------------------------------------------------------------------
(***************************************************************************)
(* SaveStates.  The queue of a slot is a chain of `previous`, of which it  *)
(* keeps the newest write.  That this orders all writes of the slot is the *)
(* invariant: a write that has begun is the oldest one under way, and so   *)
(* is any write that one in the queue is chained to, as soon as it has     *)
(* begun or settled.                                                       *)
(***************************************************************************)
Writing(s)  == [kind |-> "write", slot |-> s]
Reading(s)  == [kind |-> "read", slot |-> s]
Removing(s) == [kind |-> "remove", slot |-> s]
Listing     == [kind |-> "list", slot |-> "all"]

WritingNow == {"mkdir", "writeFile", "rename"}
Busy  == WritingNow \union {"queued"}
Asked == {"reading", "unlink", "readdir", "stat"}
File  == Requests \union {NoState, Malformed}

StatesTypes ==
  /\ operation \in [Requests -> {NoOperation, Listing} \union
                     {Writing(s) : s \in Slots} \union {Reading(s) : s \in Slots}
                     \union {Removing(s) : s \in Slots}]
  /\ progress \in [Requests -> Busy \union Asked \union Finished \union {"idle"}]
  /\ before \in [Requests -> Requests \union {NoState}]
  /\ pending \in [Slots -> Requests \union {NoState}]
  /\ entry \in [Slots -> File]
  /\ answer \in [Requests -> SUBSET (File \union Slots)]
  /\ durable \in [Requests -> [Slots -> File]]

(* What a call is at tells what it is. *)
Kinds ==
  \A c \in Requests :
    /\ progress[c] \in Busy => \E s \in Slots : operation[c] = Writing(s)
    /\ progress[c] = "reading" => \E s \in Slots : operation[c] = Reading(s)
    /\ progress[c] = "unlink" => \E s \in Slots : operation[c] = Removing(s)
    /\ progress[c] \in {"readdir", "stat"} => operation[c] = Listing
    /\ progress[c] = "idle" => operation[c] = NoOperation

(* Calls are made in the order of their numbers, and what is on disk or in *)
(* the queue comes from a call that was made.                              *)
Made ==
  /\ \A c, d \in Requests : progress[c] # "idle" /\ d < c => progress[d] # "idle"
  /\ \A s \in Slots : /\ entry[s] \in Requests => progress[entry[s]] # "idle"
                      /\ pending[s] \in Requests => progress[pending[s]] # "idle"
  /\ \A c \in Requests : before[c] \in Requests => progress[before[c]] # "idle"

(* The writes of a slot that are under way. *)
UnderWay(s) == {c \in Requests : operation[c] = Writing(s) /\ progress[c] \in Busy}

(* No write of those under way is older than c. *)
IsOldest(c, writes) == \A w \in writes : w >= c

(* What the writes after c are promised, when they are chained to it. *)
Promise(c, s, op, at, writes) ==
  c # NoState => op[c] = Writing(s) /\ (at[c] # "queued" => IsOldest(c, writes))

(* What the queue knows of a write of the slot that is under way. *)
Place(w, s, op, at, prev, writes) ==
  /\ at[w] # "queued" => IsOldest(w, writes)
  /\ at[w] = "queued" => /\ prev[w] < w
                         /\ Promise(prev[w], s, op, at, writes)
                         /\ \A v \in writes : v < w => v <= prev[w]

Queue ==
  \A s \in Slots :
    /\ \A w \in UnderWay(s) : /\ Place(w, s, operation, progress, before, UnderWay(s))
                               /\ w <= pending[s]
    /\ Promise(pending[s], s, operation, progress, UnderWay(s))

(* The file of a slot is older than every write of it that is under way. *)
StateIsOlder == \A s \in Slots : \A w \in UnderWay(s) : entry[s] <= w

Removed(s) == \E r \in Requests : operation[r] = Removing(s)

(* The file does not fall behind what it was when a call was made. *)
FileStays ==
  \A c \in Requests, s \in Slots :
    progress[c] # "idle" => durable[c][s] <= entry[s] \/ Removed(s)

StatesInv == RequestsAssumption /\ StatesTypes /\ Kinds /\ Made /\ Queue /\ StateIsOlder
        /\ FileStays /\ StatesNeverGoBack
-----------------------------------------------------------------------------
(* What a file holds can be compared. *)
LEMMA FilesAreNumbers == RequestsAssumption => File \subseteq Int
<1> SUFFICES ASSUME RequestsAssumption, NEW f \in File PROVE f \in Int
  OBVIOUS
<1>1. Requests \subseteq Int
  BY DEF RequestsAssumption
<1>2. NoState \in Int /\ Malformed \in Int
  BY DEF NoState, Malformed
<1> QED
  BY <1>1, <1>2 DEF File

(* No call was made: the files are there or not. *)
LEMMA StatesBegin == RequestsAssumption /\ StatesInit => StatesInv
<1> SUFFICES ASSUME RequestsAssumption, StatesInit PROVE StatesInv
  OBVIOUS
<1>1. StatesTypes
  BY DEF StatesInit, StatesTypes, File
<1>2. Kinds /\ Made
  BY DEF StatesInit, Kinds, Made, Busy, WritingNow, RequestsAssumption, NoState, Malformed
<1>3. \A s \in Slots : UnderWay(s) = {}
  BY DEF StatesInit, UnderWay, Busy, WritingNow
<1>4. Queue /\ StateIsOlder
  BY <1>3 DEF StatesInit, Queue, StateIsOlder, Promise
<1>5. FileStays /\ StatesNeverGoBack
  BY DEF StatesInit, FileStays, StatesNeverGoBack, NoOperation
<1> QED
  BY <1>1, <1>2, <1>4, <1>5 DEF StatesInv

(* What a call that is made knows: it is newer than all before it. *)
LEMMA NewestCall ==
  ASSUME StatesInv, NEW c \in Requests, NEW o, NEW stage, Ask(c, o, stage)
  PROVE  /\ \A d \in Requests : progress[d] # "idle" => d < c
         /\ \A s \in Slots : entry[s] < c /\ pending[s] < c
<1>1. progress[c] = "idle" /\ \A d \in Requests : progress[d] # "idle" => d # c
  BY DEF Ask
<1>2. \A d \in Requests : progress[d] # "idle" => d < c
  BY <1>1 DEF StatesInv, Made, RequestsAssumption
<1>3. \A s \in Slots : entry[s] \in File /\ pending[s] \in Requests \union {NoState}
  BY DEF StatesInv, StatesTypes
<1> QED
  BY <1>2, <1>3 DEF StatesInv, Made, RequestsAssumption, File, NoState, Malformed

(* Whatever call is made, its start keeps what does not concern the queue. *)
LEMMA CallMade ==
  ASSUME StatesInv, NEW c \in Requests, UNCHANGED <<entry, answer>>,
         NEW o \in {Listing} \union {Writing(s) : s \in Slots}
                   \union {Reading(s) : s \in Slots} \union {Removing(s) : s \in Slots},
         NEW stage \in Busy \union Asked \union {"error"}, Ask(c, o, stage),
         stage \in Busy => \E s \in Slots : o = Writing(s),
         stage = "reading" => \E s \in Slots : o = Reading(s),
         stage = "unlink" => \E s \in Slots : o = Removing(s),
         stage \in {"readdir", "stat"} => o = Listing
  PROVE  /\ operation' \in [Requests -> {NoOperation, Listing} \union
                     {Writing(s) : s \in Slots} \union {Reading(s) : s \in Slots}
                     \union {Removing(s) : s \in Slots}]
         /\ progress' \in [Requests -> Busy \union Asked \union Finished \union {"idle"}]
         /\ durable' \in [Requests -> [Slots -> File]]
         /\ Kinds' /\ FileStays' /\ StatesNeverGoBack'
         /\ \A a, d \in Requests : progress'[a] # "idle" /\ d < a => progress'[d] # "idle"
         /\ \A a \in Requests : progress[a] # "idle" => progress'[a] = progress[a]
<1>1. /\ operation' = [operation EXCEPT ![c] = o] /\ progress' = [progress EXCEPT ![c] = stage]
      /\ durable' = [durable EXCEPT ![c] = entry] /\ progress[c] = "idle"
      /\ \A d \in Requests : d < c => progress[d] # "idle"
  BY DEF Ask, Reach
<1>2. StatesTypes /\ Kinds /\ Made /\ FileStays /\ StatesNeverGoBack
  BY DEF StatesInv
<1>3. /\ operation' \in [Requests -> {NoOperation, Listing} \union
                     {Writing(s) : s \in Slots} \union {Reading(s) : s \in Slots}
                     \union {Removing(s) : s \in Slots}]
      /\ progress' \in [Requests -> Busy \union Asked \union Finished \union {"idle"}]
      /\ durable' \in [Requests -> [Slots -> File]]
  BY <1>1, <1>2 DEF StatesTypes, Finished
<1>4. \A a \in Requests : a # c =>
        operation'[a] = operation[a] /\ progress'[a] = progress[a] /\ durable'[a] = durable[a]
  BY <1>1, <1>2 DEF StatesTypes
<1>5. operation'[c] = o /\ progress'[c] = stage /\ durable'[c] = entry /\ stage # "idle"
      /\ stage # "ok"
  BY <1>1, <1>2 DEF StatesTypes, Busy, WritingNow, Asked
<1>6. operation[c] = NoOperation
  BY <1>1, <1>2 DEF Kinds
<1>7. Kinds'
  BY <1>2, <1>4, <1>5 DEF Kinds
<1>8. \A s \in Slots : Removed(s) => Removed(s)'
  BY <1>4, <1>6 DEF Removed, NoOperation, Removing
<1>9. FileStays'
  <2> SUFFICES ASSUME NEW a \in Requests, NEW s \in Slots, progress'[a] # "idle"
               PROVE  durable'[a][s] <= entry'[s] \/ Removed(s)'
    BY DEF FileStays
  <2>1. CASE a = c
    BY <2>1, <1>2, <1>5 DEF StatesTypes, File, StatesInv, RequestsAssumption, NoState, Malformed
  <2>2. CASE a # c
    BY <2>2, <1>2, <1>4, <1>8 DEF FileStays
  <2> QED
    BY <2>1, <2>2
<1>10. StatesNeverGoBack'
  <2> SUFFICES ASSUME NEW a \in Requests, operation'[a].kind = "read", progress'[a] = "ok"
               PROVE  (\/ \E n \in answer[a] : n >= durable[a][Slot(a)]
                       \/ durable[a][Slot(a)] \in {NoState, Malformed} /\ answer[a] = {}
                       \/ \E r \in Requests : operation[r] = [kind |-> "remove", slot |-> Slot(a)])'
    BY DEF StatesNeverGoBack
  <2>1. a # c /\ operation[a].kind = "read" /\ progress[a] = "ok" /\ Slot(a)' = Slot(a)
    BY <1>4, <1>5 DEF Slot
  <2>2. \A r \in Requests : operation[r] = [kind |-> "remove", slot |-> Slot(a)]
                              => operation'[r] = [kind |-> "remove", slot |-> Slot(a)]
    BY <1>4, <1>6 DEF NoOperation
  <2> QED
    BY <2>1, <2>2, <1>2, <1>4 DEF StatesNeverGoBack
<1>11. \A a, d \in Requests : progress'[a] # "idle" /\ d < a => progress'[d] # "idle"
  BY <1>1, <1>2, <1>4, <1>5 DEF Made
<1>12. \A a \in Requests : progress[a] # "idle" => progress'[a] = progress[a]
  BY <1>1, <1>4
<1> QED
  BY <1>3, <1>7, <1>9, <1>10, <1>11, <1>12

(* read, remove and list, and a write that is refused, leave the queue as  *)
(* it is.                                                                  *)
LEMMA QueueStays ==
  ASSUME StatesInv, NEW c \in Requests, UNCHANGED <<entry, answer, before, pending>>,
         NEW o \in {Listing} \union {Writing(s) : s \in Slots}
                   \union {Reading(s) : s \in Slots} \union {Removing(s) : s \in Slots},
         NEW stage \in Asked \union {"error"}, Ask(c, o, stage),
         stage = "reading" => \E s \in Slots : o = Reading(s),
         stage = "unlink" => \E s \in Slots : o = Removing(s),
         stage \in {"readdir", "stat"} => o = Listing
  PROVE  StatesInv'
<1>1. stage \notin Busy /\ stage # "idle"
  BY DEF Asked, Busy, WritingNow
<1>2. /\ operation' \in [Requests -> {NoOperation, Listing} \union
                     {Writing(s) : s \in Slots} \union {Reading(s) : s \in Slots}
                     \union {Removing(s) : s \in Slots}]
      /\ progress' \in [Requests -> Busy \union Asked \union Finished \union {"idle"}]
      /\ durable' \in [Requests -> [Slots -> File]]
      /\ Kinds' /\ FileStays' /\ StatesNeverGoBack'
      /\ \A a, d \in Requests : progress'[a] # "idle" /\ d < a => progress'[d] # "idle"
      /\ \A a \in Requests : progress[a] # "idle" => progress'[a] = progress[a]
  BY <1>1, CallMade
<1>3. StatesTypes /\ Made /\ Queue /\ StateIsOlder
  BY DEF StatesInv
<1>4. StatesTypes'
  BY <1>2, <1>3 DEF StatesTypes
<1>5. Made'
  BY <1>2, <1>3 DEF Made
<1>6. /\ operation' = [operation EXCEPT ![c] = o] /\ progress' = [progress EXCEPT ![c] = stage]
      /\ progress[c] = "idle"
  BY DEF Ask, Reach
<1>7. \A s \in Slots : UnderWay(s)' = UnderWay(s)
  BY <1>1, <1>3, <1>6 DEF UnderWay, StatesTypes, Busy, WritingNow
<1>8. Queue'
  <2>1. \A a \in Requests : progress[a] # "idle" =>
          progress'[a] = progress[a] /\ operation'[a] = operation[a]
    BY <1>2, <1>3, <1>6 DEF StatesTypes
  <2>2. \A a \in Requests \union {NoState}, s \in Slots :
          /\ a \in Requests => progress[a] # "idle"
          /\ Promise(a, s, operation, progress, UnderWay(s))
          => Promise(a, s, operation', progress', UnderWay(s)')
    BY <2>1, <1>7 DEF Promise
  <2>3. \A s \in Slots : \A w \in UnderWay(s) : w \in Requests /\ progress[w] # "idle"
    BY DEF UnderWay, Busy, WritingNow
  <2>4. ASSUME NEW s \in Slots, NEW w \in UnderWay(s)
        PROVE  Place(w, s, operation', progress', before', UnderWay(s)')
    <3>1. Place(w, s, operation, progress, before, UnderWay(s))
      BY <1>3 DEF Queue
    <3>2. Promise(before[w], s, operation, progress, UnderWay(s))
            => Promise(before[w], s, operation', progress', UnderWay(s)')
      BY <2>2, <2>3, <1>3 DEF Made, StatesTypes
    <3> QED
      BY <3>1, <3>2, <2>1, <2>3, <1>7 DEF Place
  <2>5. \A s \in Slots : Promise(pending[s], s, operation', progress', UnderWay(s)')
    BY <2>2, <1>3 DEF Queue, Made, StatesTypes
  <2> QED
    BY <2>4, <2>5, <1>3, <1>7 DEF Queue
<1>9. StateIsOlder'
  BY <1>3, <1>7 DEF StateIsOlder
<1> QED
  BY <1>2, <1>4, <1>5, <1>8, <1>9 DEF StatesInv, RequestsAssumption

(* A write joins the queue of its slot, behind the newest one in it. *)
LEMMA JoinsTheQueue ==
  ASSUME StatesInv, NEW c \in Requests, NEW s \in Slots, Ask(c, Writing(s), "queued"),
         before' = [before EXCEPT ![c] = pending[s]],
         pending' = [pending EXCEPT ![s] = c], UNCHANGED <<entry, answer>>
  PROVE  StatesInv'
<1>1. /\ operation' \in [Requests -> {NoOperation, Listing} \union
                     {Writing(t) : t \in Slots} \union {Reading(t) : t \in Slots}
                     \union {Removing(t) : t \in Slots}]
      /\ progress' \in [Requests -> Busy \union Asked \union Finished \union {"idle"}]
      /\ durable' \in [Requests -> [Slots -> File]]
      /\ Kinds' /\ FileStays' /\ StatesNeverGoBack'
      /\ \A a, d \in Requests : progress'[a] # "idle" /\ d < a => progress'[d] # "idle"
      /\ \A a \in Requests : progress[a] # "idle" => progress'[a] = progress[a]
  <2>1. "queued" \in Busy /\ "queued" \notin {"reading", "unlink", "readdir", "stat"}
    BY DEF Busy
  <2> QED
    BY <2>1, CallMade
<1>2. StatesTypes /\ Kinds /\ Made /\ Queue /\ StateIsOlder /\ RequestsAssumption
  BY DEF StatesInv
<1>3. /\ operation' = [operation EXCEPT ![c] = Writing(s)]
      /\ progress' = [progress EXCEPT ![c] = "queued"] /\ progress[c] = "idle"
      /\ before'[c] = pending[s] /\ pending'[s] = c
      /\ \A a \in Requests : a # c => before'[a] = before[a]
      /\ \A t \in Slots : t # s => pending'[t] = pending[t]
  BY <1>2 DEF Ask, Reach, StatesTypes
<1>4. /\ \A d \in Requests : progress[d] # "idle" => d < c
      /\ \A t \in Slots : entry[t] < c /\ pending[t] < c
  BY NewestCall
<1>5. StatesTypes'
  BY <1>1, <1>2 DEF StatesTypes
<1>6. Made'
  BY <1>1, <1>2, <1>3 DEF Made, StatesTypes
<1>7. /\ \A t \in Slots : t # s => UnderWay(t)' = UnderWay(t)
      /\ UnderWay(s)' = UnderWay(s) \union {c}
      /\ \A t \in Slots : c \notin UnderWay(t)
  BY <1>2, <1>3 DEF UnderWay, StatesTypes, Busy, WritingNow, Writing
<1>8. \A t \in Slots : \A w \in UnderWay(t) :
        w \in Requests /\ w < c /\ w # c /\ progress'[w] = progress[w] /\ before'[w] = before[w]
  BY <1>1, <1>3, <1>4, <1>7 DEF UnderWay, Busy, WritingNow
<1>9. \A a \in Requests \union {NoState}, t \in Slots :
        /\ a \in Requests => progress[a] # "idle"
        /\ Promise(a, t, operation, progress, UnderWay(t))
        => Promise(a, t, operation', progress', UnderWay(t)')
  <2>1. \A a \in Requests : progress[a] # "idle" =>
          progress'[a] = progress[a] /\ operation'[a] = operation[a] /\ a < c
    BY <1>1, <1>2, <1>3, <1>4 DEF StatesTypes
  <2> QED
    BY <2>1, <1>2, <1>7 DEF Promise, IsOldest, RequestsAssumption
<1>10. ASSUME NEW t \in Slots, NEW w \in UnderWay(t)
       PROVE  Place(w, t, operation', progress', before', UnderWay(t)')
  <2>1. /\ w \in Requests /\ w < c /\ progress'[w] = progress[w] /\ before'[w] = before[w]
        /\ Place(w, t, operation, progress, before, UnderWay(t))
    BY <1>2, <1>8 DEF Queue
  <2>2. Promise(before[w], t, operation, progress, UnderWay(t))
          => Promise(before[w], t, operation', progress', UnderWay(t)')
    BY <2>1, <1>2, <1>9 DEF Made, StatesTypes
  <2>3. ~(c < w) /\ c >= w
    BY <2>1, <1>2 DEF RequestsAssumption
  <2> QED
    BY <2>1, <2>2, <2>3, <1>7 DEF Place, IsOldest
<1>11. Queue'
  <2>1. ASSUME NEW t \in Slots
        PROVE  Promise(pending[t], t, operation', progress', UnderWay(t)')
    BY <1>2, <1>9 DEF Queue, Made, StatesTypes
  <2>2. progress'[c] = "queued" /\ operation'[c] = Writing(s)
    BY <1>2, <1>3 DEF StatesTypes
  <2>3. Promise(c, s, operation', progress', UnderWay(s)')
    BY <2>2 DEF Promise
  <2>4. Place(c, s, operation', progress', before', UnderWay(s)')
    <3>1. before'[c] = pending[s] /\ pending[s] < c
      BY <1>3, <1>4
    <3>2. \A v \in UnderWay(s)' : v < c => v <= pending[s]
      BY <1>2, <1>7 DEF Queue, RequestsAssumption
    <3> QED
      BY <3>1, <3>2, <2>1, <2>2 DEF Place
  <2>5. \A w \in UnderWay(s)' : w <= c
    <3> SUFFICES ASSUME NEW w \in UnderWay(s)' PROVE w <= c
      OBVIOUS
    <3>1. w = c \/ (w \in Requests /\ w < c)
      BY <1>7, <1>8
    <3>2. c \in Nat /\ (w \in Requests => w \in Nat)
      BY <1>2 DEF RequestsAssumption
    <3> QED
      BY <3>1, <3>2
  <2>6. ASSUME NEW t \in Slots
        PROVE  /\ \A w \in UnderWay(t)' : /\ Place(w, t, operation', progress', before', UnderWay(t)')
                                           /\ w <= pending'[t]
               /\ Promise(pending'[t], t, operation', progress', UnderWay(t)')
    <3>1. CASE t = s
      BY <3>1, <2>3, <2>4, <2>5, <1>3, <1>7, <1>10
    <3>2. CASE t # s
      BY <3>2, <2>1, <1>2, <1>3, <1>7, <1>10 DEF Queue
    <3> QED
      BY <3>1, <3>2
  <2> QED
    BY <2>6 DEF Queue
<1>12. StateIsOlder'
  <2> SUFFICES ASSUME NEW t \in Slots, NEW w \in UnderWay(t)' PROVE entry[t] <= w
    BY DEF StateIsOlder
  <2>1. CASE w = c
    <3>1. entry[t] \in File /\ entry[t] < c
      BY <1>2, <1>4 DEF StatesTypes
    <3>2. c \in Int
      BY <1>2 DEF RequestsAssumption
    <3>3. entry[t] \in Int
      BY <3>1, <1>2, FilesAreNumbers
    <3> QED
      BY <3>1, <3>2, <3>3, <2>1
  <2>2. CASE w # c
    BY <2>2, <1>2, <1>7 DEF StateIsOlder
  <2> QED
    BY <2>1, <2>2
<1> QED
  BY <1>1, <1>2, <1>5, <1>6, <1>11, <1>12 DEF StatesInv, RequestsAssumption

(* A write that is the oldest one under way goes on, or settles without a  *)
(* state: what the others know of the queue stays true.                    *)
LEMMA WriteGoesOn ==
  ASSUME StatesInv, NEW c \in Requests, NEW s \in Slots, c \in UnderWay(s),
         IsOldest(c, UnderWay(s)), NEW stage \in WritingNow \union Finished, Reach(c, stage),
         UNCHANGED <<operation, before, pending, answer, durable>>
  PROVE  /\ Kinds' /\ Queue'
         /\ progress' \in [Requests -> Busy \union Asked \union Finished \union {"idle"}]
         /\ \A t \in Slots : UnderWay(t)' \subseteq UnderWay(t)
         /\ \A a \in Requests : a # c => progress'[a] = progress[a]
         /\ progress'[c] = stage /\ stage # "idle" /\ progress[c] # "idle"
         /\ operation[c] = Writing(s)
<1>1. StatesTypes /\ Kinds /\ Made /\ Queue
  BY DEF StatesInv
<1>2. /\ progress'[c] = stage /\ stage \notin {"queued", "idle"}
      /\ \A a \in Requests : a # c => progress'[a] = progress[a]
      /\ \A a \in Requests : progress'[a] = "queued" => progress[a] = "queued"
      /\ progress[c] \in Busy /\ operation[c] = Writing(s)
  BY <1>1 DEF Reach, StatesTypes, UnderWay, WritingNow, Finished
<1>3. progress' \in [Requests -> Busy \union Asked \union Finished \union {"idle"}]
  BY <1>1 DEF Reach, StatesTypes, Busy
<1>4. Kinds'
  BY <1>1, <1>2 DEF Kinds, Busy, WritingNow, Finished
<1>5. \A t \in Slots : UnderWay(t)' \subseteq UnderWay(t) /\ (t # s => c \notin UnderWay(t))
  BY <1>2 DEF UnderWay, Writing
<1>6. \A a \in Requests \union {NoState}, t \in Slots :
        Promise(a, t, operation, progress, UnderWay(t))
        => Promise(a, t, operation', progress', UnderWay(t)')
  <2> SUFFICES ASSUME NEW a \in Requests, NEW t \in Slots, operation[a] = Writing(t),
                      progress[a] # "queued" => IsOldest(a, UnderWay(t)),
                      progress'[a] # "queued"
               PROVE  IsOldest(a, UnderWay(t)')
    BY DEF Promise
  <2>1. CASE a = c
    <3>1. t = s
      BY <2>1, <1>2 DEF Writing
    <3> QED
      BY <2>1, <3>1, <1>5 DEF IsOldest
  <2>2. CASE a # c
    BY <2>2, <1>2, <1>5 DEF IsOldest
  <2> QED
    BY <2>1, <2>2
<1>7. ASSUME NEW t \in Slots, NEW w \in UnderWay(t)'
      PROVE  Place(w, t, operation', progress', before', UnderWay(t)')
  <2>1. w \in UnderWay(t) /\ w \in Requests /\ Place(w, t, operation, progress, before, UnderWay(t))
    BY <1>1, <1>5 DEF Queue, UnderWay
  <2>2. progress'[w] # "queued" => IsOldest(w, UnderWay(t)')
    <3>1. CASE w = c
      BY <3>1, <2>1, <1>5 DEF IsOldest
    <3>2. CASE w # c
      BY <3>2, <2>1, <1>2, <1>5 DEF IsOldest, Place
    <3> QED
      BY <3>1, <3>2
  <2>3. Promise(before[w], t, operation, progress, UnderWay(t))
          => Promise(before[w], t, operation', progress', UnderWay(t)')
    BY <2>1, <1>1, <1>6 DEF StatesTypes
  <2> QED
    BY <2>1, <2>2, <2>3, <1>2, <1>5 DEF Place
<1>8. Queue'
  BY <1>1, <1>5, <1>6, <1>7 DEF Queue, StatesTypes
<1> QED
  BY <1>2, <1>3, <1>4, <1>5, <1>8 DEF Busy, WritingNow

(* Its place in the queue and what follows: a write that may start is the  *)
(* oldest one under way, and so is one that has begun.                     *)
LEMMA OldestOfItsSlot ==
  ASSUME StatesInv, NEW c \in Requests, progress[c] \in WritingNow \/ CanStart(c)
  PROVE  \E s \in Slots : /\ c \in UnderWay(s) /\ IsOldest(c, UnderWay(s))
                          /\ operation[c] = Writing(s) /\ Slot(c) = s
<1>1. StatesTypes /\ Kinds /\ Queue /\ RequestsAssumption
  BY DEF StatesInv
<1>2. PICK s \in Slots : operation[c] = Writing(s) /\ c \in UnderWay(s)
  BY <1>1 DEF Kinds, UnderWay, Busy, CanStart
<1>3. Place(c, s, operation, progress, before, UnderWay(s))
  BY <1>1, <1>2 DEF Queue
<1>4. CASE progress[c] \in WritingNow
  BY <1>2, <1>3, <1>4 DEF Place, WritingNow, Slot, Writing
<1>5. CASE CanStart(c)
  <2>1. progress[c] = "queued" /\ (before[c] # NoState => progress[before[c]] \in Finished)
    BY <1>5 DEF CanStart
  <2>2. /\ Promise(before[c], s, operation, progress, UnderWay(s))
        /\ \A v \in UnderWay(s) : v < c => v <= before[c]
    BY <2>1, <1>3 DEF Place
  <2>3. \A v \in UnderWay(s) : v \in Requests /\ v \in Nat /\ v # NoState /\ progress[v] \in Busy
    BY <1>1 DEF UnderWay, RequestsAssumption, NoState
  <2>4. before[c] \in Requests \union {NoState} /\ c \in Nat
        /\ (before[c] \in Requests => before[c] \in Nat)
    BY <1>1 DEF StatesTypes, RequestsAssumption
  <2>5. ASSUME NEW v \in UnderWay(s), v < c PROVE FALSE
    <3>1. v <= before[c]
      BY <2>2, <2>5
    <3>2. CASE before[c] = NoState
      BY <3>1, <3>2, <2>3, <1>1 DEF NoState
    <3>3. CASE before[c] # NoState
      <4>1. progress[before[c]] \in Finished /\ IsOldest(before[c], UnderWay(s))
        BY <3>3, <2>1, <2>2 DEF Promise, Finished
      <4>2. v >= before[c]
        BY <4>1 DEF IsOldest
      <4>3. v = before[c]
        BY <4>2, <3>1, <3>3, <2>3, <2>4
      <4> QED
        BY <4>1, <4>3, <2>3 DEF Busy, WritingNow, Finished
    <3> QED
      BY <3>2, <3>3
  <2>6. IsOldest(c, UnderWay(s))
    <3> SUFFICES ASSUME NEW v \in UnderWay(s) PROVE v >= c
      BY DEF IsOldest
    <3> QED
      BY <2>3, <2>4, <2>5
  <2> QED
    BY <2>6, <1>2 DEF Slot, Writing
<1> QED
  BY <1>4, <1>5

(* A write goes on that puts no state on disk. *)
LEMMA WriteWithoutState ==
  ASSUME StatesInv, NEW c \in Requests, progress[c] \in WritingNow \/ CanStart(c),
         NEW stage \in WritingNow \union {"error", "rejected"}, Reach(c, stage),
         UNCHANGED <<operation, before, pending, entry, answer, durable>>
  PROVE  StatesInv'
<1>1. PICK s \in Slots : c \in UnderWay(s) /\ IsOldest(c, UnderWay(s))
  BY OldestOfItsSlot
<1>2. stage \in WritingNow \union Finished /\ stage # "ok"
  BY DEF Finished, WritingNow
<1>3. /\ Kinds' /\ Queue'
      /\ progress' \in [Requests -> Busy \union Asked \union Finished \union {"idle"}]
      /\ \A t \in Slots : UnderWay(t)' \subseteq UnderWay(t)
      /\ \A a \in Requests : a # c => progress'[a] = progress[a]
      /\ progress'[c] = stage /\ stage # "idle" /\ progress[c] # "idle"
  BY <1>1, <1>2, WriteGoesOn
<1>4. StatesTypes /\ Made /\ StateIsOlder /\ FileStays /\ StatesNeverGoBack
  BY DEF StatesInv
<1>5. StatesTypes'
  BY <1>3, <1>4 DEF StatesTypes
<1>6. Made'
  BY <1>3, <1>4 DEF Made
<1>7. StateIsOlder'
  BY <1>3, <1>4 DEF StateIsOlder
<1>8. FileStays'
  BY <1>3, <1>4 DEF FileStays, Removed
<1>9. StatesNeverGoBack'
  BY <1>2, <1>3, <1>4 DEF StatesNeverGoBack, Slot
<1> QED
  BY <1>3, <1>5, <1>6, <1>7, <1>8, <1>9 DEF StatesInv, RequestsAssumption

(* A write puts its state on disk: it is newer than what was there, and no *)
(* older write is under way.                                               *)
LEMMA StateRenamed ==
  ASSUME StatesInv, NEW c \in Requests, progress[c] = "rename", Reach(c, "ok"),
         entry' = [entry EXCEPT ![Slot(c)] = c],
         UNCHANGED <<operation, before, pending, answer, durable>>
  PROVE  StatesInv'
<1>1. PICK s \in Slots : /\ c \in UnderWay(s) /\ IsOldest(c, UnderWay(s))
                         /\ operation[c] = Writing(s) /\ Slot(c) = s
  <2>1. progress[c] \in WritingNow
    BY DEF WritingNow
  <2> QED
    BY <2>1, OldestOfItsSlot
<1>2. "ok" \in WritingNow \union Finished
  BY DEF Finished
<1>3. /\ Kinds' /\ Queue'
      /\ progress' \in [Requests -> Busy \union Asked \union Finished \union {"idle"}]
      /\ \A t \in Slots : UnderWay(t)' \subseteq UnderWay(t)
      /\ \A a \in Requests : a # c => progress'[a] = progress[a]
      /\ progress'[c] = "ok" /\ progress[c] # "idle"
  BY <1>1, <1>2, WriteGoesOn
<1>4. StatesTypes /\ Made /\ StateIsOlder /\ FileStays /\ StatesNeverGoBack /\ RequestsAssumption
  BY DEF StatesInv
<1>5. entry'[s] = c /\ \A t \in Slots : t # s => entry'[t] = entry[t]
  BY <1>1, <1>4 DEF StatesTypes
<1>6. StatesTypes'
  BY <1>1, <1>3, <1>4 DEF StatesTypes, File
<1>7. Made'
  BY <1>3, <1>4, <1>5 DEF Made
<1>8. StateIsOlder'
  <2> SUFFICES ASSUME NEW t \in Slots, NEW w \in UnderWay(t)' PROVE entry'[t] <= w
    BY DEF StateIsOlder
  <2>1. w \in UnderWay(t)
    BY <1>3
  <2>2. CASE t = s
    <3>1. w >= c /\ w \in Nat /\ c \in Nat
      BY <2>1, <2>2, <1>1, <1>4 DEF IsOldest, UnderWay, RequestsAssumption
    <3> QED
      BY <3>1, <2>2, <1>5
  <2>3. CASE t # s
    BY <2>1, <2>3, <1>4, <1>5 DEF StateIsOlder
  <2> QED
    BY <2>2, <2>3
<1>9. FileStays'
  <2> SUFFICES ASSUME NEW a \in Requests, NEW t \in Slots, progress'[a] # "idle"
               PROVE  durable[a][t] <= entry'[t] \/ Removed(t)
    BY DEF FileStays, Removed
  <2>1. durable[a][t] <= entry[t] \/ Removed(t)
    BY <1>3, <1>4 DEF FileStays
  <2>2. entry[s] <= c
    BY <1>1, <1>4 DEF StateIsOlder
  <2>3. durable[a][t] \in Int /\ entry[t] \in Int /\ c \in Int
    BY <1>4, FilesAreNumbers DEF StatesTypes, File
  <2> QED
    BY <2>1, <2>2, <2>3, <1>5
<1>10. StatesNeverGoBack'
  <2>1. operation[c].kind # "read"
    BY <1>1 DEF Writing
  <2> QED
    BY <2>1, <1>3, <1>4 DEF StatesNeverGoBack, Slot
<1> QED
  BY <1>3, <1>4, <1>6, <1>7, <1>8, <1>9, <1>10 DEF StatesInv, RequestsAssumption

(* The queue forgets its newest write, which has settled: no write of the  *)
(* slot is under way.                                                      *)
LEMMA QueueForgets ==
  ASSUME StatesInv, NEW c \in Requests, Forget(c)
  PROVE  StatesInv'
<1>1. StatesTypes /\ Kinds /\ Made /\ Queue /\ StateIsOlder /\ FileStays /\ StatesNeverGoBack
      /\ RequestsAssumption
  BY DEF StatesInv
<1>2. /\ progress[c] \in Finished /\ operation[c].kind = "write" /\ pending[Slot(c)] = c
      /\ pending' = [pending EXCEPT ![Slot(c)] = NoState]
      /\ UNCHANGED <<operation, progress, before, entry, answer, durable>>
  BY DEF Forget
<1>3. PICK s \in Slots : Slot(c) = s
  BY <1>1, <1>2 DEF StatesTypes, Slot, NoOperation, Listing, Writing, Reading, Removing
<1>4. pending'[s] = NoState /\ \A t \in Slots : t # s => pending'[t] = pending[t]
  BY <1>1, <1>2, <1>3 DEF StatesTypes
<1>5. UnderWay(s) = {}
  <2> SUFFICES ASSUME NEW w \in UnderWay(s) PROVE FALSE
    OBVIOUS
  <2>1. w <= c /\ Promise(c, s, operation, progress, UnderWay(s))
    BY <1>1, <1>2, <1>3 DEF Queue
  <2>2. c # NoState /\ c \in Nat /\ w \in Nat /\ progress[w] \in Busy
    BY <1>1 DEF RequestsAssumption, NoState, UnderWay
  <2>3. w >= c
    BY <2>1, <2>2, <1>2 DEF Promise, IsOldest, Finished
  <2>4. w = c
    BY <2>1, <2>2, <2>3
  <2> QED
    BY <2>2, <2>4, <1>2 DEF Busy, WritingNow, Finished
<1>6. \A t \in Slots : UnderWay(t)' = UnderWay(t)
  BY <1>2 DEF UnderWay
<1>7. StatesTypes'
  BY <1>1, <1>2 DEF StatesTypes
<1>8. Kinds' /\ FileStays' /\ StatesNeverGoBack'
  BY <1>1, <1>2 DEF Kinds, FileStays, Removed, StatesNeverGoBack, Slot
<1>9. Made'
  BY <1>1, <1>2, <1>3, <1>4 DEF Made, RequestsAssumption, NoState
<1>10. Queue'
  <2> SUFFICES ASSUME NEW t \in Slots
               PROVE  /\ \A w \in UnderWay(t) : /\ Place(w, t, operation, progress, before, UnderWay(t))
                                                 /\ w <= pending'[t]
                      /\ Promise(pending'[t], t, operation, progress, UnderWay(t))
    BY <1>2, <1>6 DEF Queue
  <2>1. CASE t = s
    BY <2>1, <1>4, <1>5 DEF Promise
  <2>2. CASE t # s
    BY <2>2, <1>1, <1>4 DEF Queue
  <2> QED
    BY <2>1, <2>2
<1>11. StateIsOlder'
  BY <1>1, <1>2, <1>6 DEF StateIsOlder
<1> QED
  BY <1>1, <1>7, <1>8, <1>9, <1>10, <1>11 DEF StatesInv, RequestsAssumption

(* A read, a removal or a list goes on: no write moves. *)
LEMMA OtherGoesOn ==
  ASSUME StatesInv, NEW c \in Requests, progress[c] \in Asked,
         NEW stage \in {"stat", "ok", "error"}, Reach(c, stage),
         stage = "stat" => progress[c] = "readdir",
         UNCHANGED <<operation, before, pending, durable>>
  PROVE  /\ Kinds' /\ Queue'
         /\ progress' \in [Requests -> Busy \union Asked \union Finished \union {"idle"}]
         /\ \A t \in Slots : UnderWay(t)' = UnderWay(t)
         /\ \A a \in Requests : a # c => progress'[a] = progress[a]
         /\ progress'[c] = stage /\ progress[c] # "idle"
<1>1. StatesTypes /\ Kinds /\ Queue
  BY DEF StatesInv
<1>2. /\ progress'[c] = stage /\ progress[c] \notin Busy \union {"idle"}
      /\ stage \notin Busy \union {"idle", "reading", "unlink", "readdir"}
      /\ \A a \in Requests : a # c => progress'[a] = progress[a]
  BY <1>1 DEF Reach, StatesTypes, Asked, Busy, WritingNow
<1>3. progress' \in [Requests -> Busy \union Asked \union Finished \union {"idle"}]
  BY <1>1 DEF Reach, StatesTypes, Asked, Finished
<1>4. Kinds'
  BY <1>1, <1>2 DEF Kinds
<1>5. \A t \in Slots : UnderWay(t)' = UnderWay(t) /\ c \notin UnderWay(t)
  BY <1>2 DEF UnderWay
<1>6. \A a \in Requests : progress'[a] = "queued" <=> progress[a] = "queued"
  BY <1>2 DEF Busy
<1>7. \A a \in Requests \union {NoState}, t \in Slots :
        Promise(a, t, operation, progress, UnderWay(t))
        => Promise(a, t, operation', progress', UnderWay(t)')
  BY <1>5, <1>6 DEF Promise
<1>8. ASSUME NEW t \in Slots, NEW w \in UnderWay(t)
      PROVE  Place(w, t, operation', progress', before', UnderWay(t)')
  <2>1. w \in Requests /\ Place(w, t, operation, progress, before, UnderWay(t))
    BY <1>1 DEF Queue, UnderWay
  <2>2. Promise(before[w], t, operation, progress, UnderWay(t))
          => Promise(before[w], t, operation', progress', UnderWay(t)')
    BY <2>1, <1>1, <1>7 DEF StatesTypes
  <2> QED
    BY <2>1, <2>2, <1>5, <1>6 DEF Place
<1>9. Queue'
  BY <1>1, <1>5, <1>7, <1>8 DEF Queue, StatesTypes
<1> QED
  BY <1>2, <1>3, <1>4, <1>5, <1>9

(* A call that ends without a change of the files, and that is no read     *)
(* that was answered.                                                      *)
LEMMA OtherWithoutChange ==
  ASSUME StatesInv, NEW c \in Requests, progress[c] \in Asked,
         NEW stage \in {"stat", "ok", "error"}, Reach(c, stage),
         stage = "stat" => progress[c] = "readdir",
         stage = "ok" => progress[c] # "reading",
         answer' \in [Requests -> SUBSET (File \union Slots)],
         \A a \in Requests : a # c => answer'[a] = answer[a],
         UNCHANGED <<operation, before, pending, entry, durable>>
  PROVE  StatesInv'
<1>1. /\ Kinds' /\ Queue'
      /\ progress' \in [Requests -> Busy \union Asked \union Finished \union {"idle"}]
      /\ \A t \in Slots : UnderWay(t)' = UnderWay(t)
      /\ \A a \in Requests : a # c => progress'[a] = progress[a]
      /\ progress'[c] = stage /\ progress[c] # "idle" /\ stage # "idle"
  BY OtherGoesOn
<1>2. StatesTypes /\ Kinds /\ Made /\ StateIsOlder /\ FileStays /\ StatesNeverGoBack
  BY DEF StatesInv
<1>3. StatesTypes'
  BY <1>1, <1>2 DEF StatesTypes
<1>4. Made' /\ StateIsOlder' /\ FileStays'
  BY <1>1, <1>2 DEF Made, StateIsOlder, FileStays, Removed
<1>5. stage = "ok" => operation[c].kind # "read"
  <2>1. /\ Listing.kind = "list" /\ "list" # "read" /\ "remove" # "read"
        /\ \A s \in Slots : Removing(s).kind = "remove"
    BY DEF Listing, Removing
  <2>2. CASE progress[c] = "unlink"
    BY <2>1, <2>2, <1>2 DEF Kinds
  <2>3. CASE progress[c] \in {"readdir", "stat"}
    BY <2>1, <2>3, <1>2 DEF Kinds
  <2> QED
    BY <2>2, <2>3 DEF Asked
<1>6. StatesNeverGoBack'
  BY <1>1, <1>2, <1>5 DEF StatesNeverGoBack, Slot
<1> QED
  BY <1>1, <1>3, <1>4, <1>6 DEF StatesInv, RequestsAssumption

(* A read is answered from the file, which has not fallen behind what it   *)
(* was when the read was made.                                             *)
LEMMA StateRead ==
  ASSUME StatesInv, NEW c \in Requests, ReadAnswered(c)
  PROVE  StatesInv'
<1>1. /\ progress[c] = "reading" /\ progress[c] \in Asked
      /\ UNCHANGED <<operation, before, pending, entry, durable>>
  BY DEF ReadAnswered, Asked
<1>2. StatesTypes /\ Kinds /\ Made /\ StateIsOlder /\ FileStays /\ StatesNeverGoBack
      /\ RequestsAssumption
  BY DEF StatesInv
<1>3. CASE Reach(c, "error") /\ UNCHANGED answer
  BY <1>1, <1>2, <1>3, OtherWithoutChange DEF StatesTypes
<1>4. CASE /\ entry[Slot(c)] # Malformed /\ Reach(c, "ok")
           /\ answer' = [answer EXCEPT ![c] = {entry[Slot(c)]} \ {NoState}]
  <2>1. PICK s \in Slots : operation[c] = Reading(s) /\ Slot(c) = s
    BY <1>1, <1>2 DEF Kinds, Slot, Reading
  <2>2. /\ Kinds' /\ Queue'
        /\ progress' \in [Requests -> Busy \union Asked \union Finished \union {"idle"}]
        /\ \A t \in Slots : UnderWay(t)' = UnderWay(t)
        /\ \A a \in Requests : a # c => progress'[a] = progress[a]
        /\ progress'[c] = "ok" /\ progress[c] # "idle"
    BY <1>1, <1>4, OtherGoesOn
  <2>3. /\ answer'[c] = {entry[s]} \ {NoState} /\ entry[s] \in File
        /\ \A a \in Requests : a # c => answer'[a] = answer[a]
    BY <1>2, <1>4, <2>1 DEF StatesTypes
  <2>4. StatesTypes'
    BY <1>1, <1>2, <1>4, <2>1, <2>2, <2>3 DEF StatesTypes
  <2>5. Made' /\ StateIsOlder' /\ FileStays'
    BY <1>1, <1>2, <2>2 DEF Made, StateIsOlder, FileStays, Removed
  <2>6. \/ \E a \in answer'[c] : a >= durable[c][s]
        \/ durable[c][s] \in {NoState, Malformed} /\ answer'[c] = {}
        \/ Removed(s)
    <3>1. durable[c][s] <= entry[s] \/ Removed(s)
      BY <1>1, <1>2 DEF FileStays
    <3>2. durable[c][s] \in File /\ durable[c][s] \in Int /\ entry[s] \in Int
      BY <1>2, <2>3, FilesAreNumbers DEF StatesTypes
    <3>3. CASE entry[s] # NoState /\ durable[c][s] <= entry[s]
      BY <3>2, <3>3, <2>3
    <3>4. CASE entry[s] = NoState /\ durable[c][s] <= entry[s]
      <4>1. answer'[c] = {}
        BY <3>4, <2>3
      <4>2. durable[c][s] <= 0
        BY <3>4 DEF NoState
      <4>3. \A r \in Requests : r > 0
        BY <1>2 DEF RequestsAssumption
      <4>4. durable[c][s] \notin Requests
        BY <4>2, <4>3, <3>2
      <4> QED
        BY <4>1, <4>4, <3>2 DEF File
    <3> QED
      BY <3>1, <3>3, <3>4
  <2>7. StatesNeverGoBack'
    <3> SUFFICES ASSUME NEW a \in Requests, operation[a].kind = "read", progress'[a] = "ok"
                 PROVE  \/ \E n \in answer'[a] : n >= durable[a][Slot(a)]
                        \/ durable[a][Slot(a)] \in {NoState, Malformed} /\ answer'[a] = {}
                        \/ \E r \in Requests : operation[r] = [kind |-> "remove", slot |-> Slot(a)]
      BY <1>1 DEF StatesNeverGoBack, Slot
    <3>1. CASE a = c
      BY <3>1, <2>1, <2>6 DEF Removed, Removing
    <3>2. CASE a # c
      BY <3>2, <2>2, <2>3, <1>2 DEF StatesNeverGoBack
    <3> QED
      BY <3>1, <3>2
  <2> QED
    BY <2>2, <2>4, <2>5, <2>7, <1>2 DEF StatesInv, RequestsAssumption
<1> QED
  BY <1>3, <1>4 DEF ReadAnswered

(* The file of a slot is removed, or cannot be. *)
LEMMA StateRemoved ==
  ASSUME StatesInv, NEW c \in Requests, RemoveAnswered(c)
  PROVE  StatesInv'
<1>1. /\ progress[c] = "unlink" /\ progress[c] \in Asked /\ progress[c] # "reading"
      /\ UNCHANGED <<operation, before, pending, answer, durable>>
  BY DEF RemoveAnswered, Asked
<1>2. StatesTypes /\ Kinds /\ Made /\ StateIsOlder /\ FileStays /\ StatesNeverGoBack
      /\ RequestsAssumption
  BY DEF StatesInv
<1>3. CASE Reach(c, "error") /\ UNCHANGED entry
  BY <1>1, <1>2, <1>3, OtherWithoutChange DEF StatesTypes
<1>4. CASE Reach(c, "ok") /\ entry' = [entry EXCEPT ![Slot(c)] = NoState]
  <2>1. PICK s \in Slots : operation[c] = Removing(s) /\ Slot(c) = s
    <3>1. \E s \in Slots : operation[c] = Removing(s)
      BY <1>1, <1>2 DEF Kinds
    <3> QED
      BY <3>1 DEF Slot, Removing
  <2>2. /\ Kinds' /\ Queue'
        /\ progress' \in [Requests -> Busy \union Asked \union Finished \union {"idle"}]
        /\ \A t \in Slots : UnderWay(t)' = UnderWay(t)
        /\ \A a \in Requests : a # c => progress'[a] = progress[a]
        /\ progress'[c] = "ok" /\ progress[c] # "idle"
    BY <1>1, <1>4, OtherGoesOn
  <2>3. entry'[s] = NoState /\ \A t \in Slots : t # s => entry'[t] = entry[t]
    BY <1>2, <1>4, <2>1 DEF StatesTypes
  <2>4. StatesTypes'
    BY <1>1, <1>2, <1>4, <2>2 DEF StatesTypes, File
  <2>5. Made'
    <3>1. NoState \notin Requests
      BY <1>2 DEF RequestsAssumption, NoState
    <3>2. \A t \in Slots : entry'[t] \in Requests => entry'[t] = entry[t]
      BY <3>1, <2>3
    <3>3. \A a \in Requests : progress[a] = "idle" <=> progress'[a] = "idle"
      BY <2>2
    <3> QED
      BY <3>2, <3>3, <1>1, <1>2 DEF Made
  <2>6. StateIsOlder'
    <3>1. \A w \in Requests : NoState <= w
      BY <1>2 DEF RequestsAssumption, NoState
    <3> QED
      BY <3>1, <1>2, <2>2, <2>3 DEF StateIsOlder, UnderWay
  <2>7. FileStays'
    BY <1>1, <1>2, <2>1, <2>2, <2>3 DEF FileStays, Removed
  <2>8. StatesNeverGoBack'
    <3>1. operation[c].kind # "read"
      BY <2>1 DEF Removing
    <3> QED
      BY <3>1, <1>1, <1>2, <2>2 DEF StatesNeverGoBack, Slot
  <2> QED
    BY <2>2, <2>4, <2>5, <2>6, <2>7, <2>8, <1>2 DEF StatesInv, RequestsAssumption
<1> QED
  BY <1>3, <1>4 DEF RemoveAnswered

(* A list goes on, or fails. *)
LEMMA StatesListed ==
  ASSUME StatesInv, NEW c \in Requests, NamesListed(c) \/ EntriesListed(c)
  PROVE  StatesInv'
<1>1. answer \in [Requests -> SUBSET (File \union Slots)]
  BY DEF StatesInv, StatesTypes
<1>2. CASE NamesListed(c)
  <2>1. /\ progress[c] = "readdir" /\ progress[c] \in Asked
        /\ UNCHANGED <<operation, before, pending, entry, durable>>
        /\ Reach(c, "stat") \/ Reach(c, "error")
        /\ answer' \in [Requests -> SUBSET (File \union Slots)]
        /\ \A a \in Requests : a # c => answer'[a] = answer[a]
    BY <1>1, <1>2 DEF NamesListed, Asked
  <2> QED
    BY <2>1, OtherWithoutChange
<1>3. CASE EntriesListed(c)
  <2>1. /\ progress[c] = "stat" /\ progress[c] \in Asked
        /\ UNCHANGED <<operation, before, pending, entry, answer, durable>>
        /\ Reach(c, "ok") \/ Reach(c, "error")
    BY <1>3 DEF EntriesListed, Asked
  <2> QED
    BY <2>1, <1>1, OtherWithoutChange
<1> QED
  BY <1>2, <1>3

(* Every step of the repository keeps the invariant. *)
LEMMA StatesStep == StatesInv /\ [StatesNext]_stateVars => StatesInv'
<1> SUFFICES ASSUME StatesInv, [StatesNext]_stateVars PROVE StatesInv'
  OBVIOUS
<1>1. ASSUME NEW c \in Requests, NEW s \in Slots, WriteState(c, s) PROVE StatesInv'
  <2>1. "error" \in Asked \union {"error"}
        /\ "error" \notin {"reading", "unlink", "readdir", "stat"}
    OBVIOUS
  <2>2. CASE /\ Ask(c, [kind |-> "write", slot |-> s], "queued")
             /\ before' = [before EXCEPT ![c] = pending[s]]
             /\ pending' = [pending EXCEPT ![s] = c]
             /\ UNCHANGED <<entry, answer>>
    BY <2>2, JoinsTheQueue DEF Writing
  <2>3. CASE /\ Ask(c, [kind |-> "write", slot |-> s], "error")
             /\ UNCHANGED <<before, pending, entry, answer>>
    <3>1. Ask(c, Writing(s), "error")
      BY <2>3 DEF Writing
    <3> QED
      BY <3>1, <2>1, <2>3, QueueStays
  <2> QED
    BY <2>2, <2>3, <1>1 DEF WriteState
<1>2. ASSUME NEW c \in Requests, NEW s \in Slots, ReadState(c, s) PROVE StatesInv'
  <2>1. Ask(c, Reading(s), "reading") /\ UNCHANGED <<before, pending, entry, answer>>
    BY <1>2 DEF ReadState, AskOther, Reading
  <2>2. "reading" \in Asked \union {"error"}
    BY DEF Asked
  <2> QED
    BY <2>1, <2>2, QueueStays
<1>3. ASSUME NEW c \in Requests, NEW s \in Slots, RemoveState(c, s) PROVE StatesInv'
  <2>1. Ask(c, Removing(s), "unlink") /\ UNCHANGED <<before, pending, entry, answer>>
    BY <1>3 DEF RemoveState, AskOther, Removing
  <2>2. "unlink" \in Asked \union {"error"}
    BY DEF Asked
  <2> QED
    BY <2>1, <2>2, QueueStays
<1>4. ASSUME NEW c \in Requests, ListStates(c) PROVE StatesInv'
  <2>1. Ask(c, Listing, "readdir") /\ UNCHANGED <<before, pending, entry, answer>>
    BY <1>4 DEF ListStates, AskOther, Listing
  <2>2. "readdir" \in Asked \union {"error"}
    BY DEF Asked
  <2> QED
    BY <2>1, <2>2, QueueStays
<1>5. ASSUME NEW c \in Requests, StateStep(c) PROVE StatesInv'
  <2>1. CASE StartWrite(c)
    BY <2>1, WriteWithoutState DEF StartWrite, WritingNow
  <2>2. CASE MakeStateDirectory(c)
    BY <2>2, WriteWithoutState DEF MakeStateDirectory, WritingNow
  <2>3. CASE WriteStateFile(c)
    BY <2>3, WriteWithoutState DEF WriteStateFile, WritingNow
  <2>4. CASE RenameState(c)
    <3>1. CASE Reach(c, "ok") /\ entry' = [entry EXCEPT ![Slot(c)] = c]
      BY <2>4, <3>1, StateRenamed DEF RenameState
    <3>2. CASE Reach(c, "error") /\ UNCHANGED entry
      BY <2>4, <3>2, WriteWithoutState DEF RenameState, WritingNow
    <3> QED
      BY <2>4, <3>1, <3>2 DEF RenameState
  <2>5. CASE Forget(c)
    BY <2>5, QueueForgets
  <2>6. CASE ReadAnswered(c)
    BY <2>6, StateRead
  <2>7. CASE RemoveAnswered(c)
    BY <2>7, StateRemoved
  <2>8. CASE NamesListed(c) \/ EntriesListed(c)
    BY <2>8, StatesListed
  <2> QED
    BY <2>1, <2>2, <2>3, <2>4, <2>5, <2>6, <2>7, <2>8, <1>5 DEF StateStep
<1>6. CASE UNCHANGED stateVars
  <2>1. /\ UNCHANGED <<operation, progress, before, pending, entry, answer, durable>>
        /\ \A s \in Slots : UnderWay(s)' = UnderWay(s)
    BY <1>6 DEF stateVars, UnderWay
  <2>2. StatesTypes' /\ Kinds' /\ Made' /\ StatesNeverGoBack'
    BY <2>1 DEF StatesInv, StatesTypes, Kinds, Made, StatesNeverGoBack, Slot
  <2>3. Queue' /\ StateIsOlder' /\ FileStays'
    BY <2>1 DEF StatesInv, Queue, StateIsOlder, FileStays, Removed
  <2> QED
    BY <2>2, <2>3 DEF StatesInv, RequestsAssumption
<1> QED
  BY <1>1, <1>2, <1>3, <1>4, <1>5, <1>6 DEF StatesNext
-----------------------------------------------------------------------------
(* However many autosaves, captures, removals and reads of a slot overlap, *)
(* and whichever of them fail, a read never answers an older state than    *)
(* was on disk when it began.                                              *)
THEOREM ReadsNeverGoBack == RequestsAssumption /\ StatesSpec => []StatesNeverGoBack
<1>1. RequestsAssumption /\ StatesInit => StatesInv
  BY StatesBegin
<1>2. StatesInv /\ [StatesNext]_stateVars => StatesInv'
  BY StatesStep
<1>3. StatesInv => StatesNeverGoBack
  BY DEF StatesInv
<1> QED
  BY <1>1, <1>2, <1>3, PTL DEF StatesSpec
=============================================================================
