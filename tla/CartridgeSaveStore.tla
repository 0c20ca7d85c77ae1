-------------------------- MODULE CartridgeSaveStore --------------------------
(***************************************************************************)
(* The store of battery saves (apps/desktop/src/cartridge-save-store.ts):  *)
(* one promise chain per key, and for each call a temporary file that is   *)
(* renamed over the save.  A call of `write` is known by its number, in    *)
(* the order of the calls; the number also stands for the bytes it         *)
(* carries, so `file[k].write` says whose bytes the file of k holds and    *)
(* `file[k].whole` whether all of them.                                    *)
(*                                                                         *)
(* Every await of a file-system operation is a step of its own; what runs  *)
(* between two awaits is one step.  Calls that are rejected at once (an    *)
(* invalid key, an invalid size) change nothing and are left out.          *)
(***************************************************************************)
EXTENDS Naturals

CONSTANTS Keys,        \* the ROM identities saves are stored under
          NoKey,       \* the key of a call that was not made
          MaxWrites    \* bound: calls of `write` in a behaviour

ASSUME StoreAssumption == MaxWrites \in Nat /\ NoKey \notin Keys

NoWrite == 0
Write   == 1..MaxWrites

VARIABLES issued,   \* how many calls of `write` were made
          keyOf,    \* the key of each call
          step,     \* the await each call is at
          previous, \* the promise each call waits for before it starts
          chain,    \* #writes: the newest promise of each key
          temp,     \* the temporary file of each call
          file      \* the save of each key

vars == <<issued, keyOf, step, previous, chain, temp, file>>

Settled == {"ok", "failed", "lost"}
Begun   == {"mkdir", "writeFile", "rename", "renamed", "unlink"}
Step    == {"unused", "queued"} \union Begun \union Settled

(* Types, and: exactly the calls that were not made have no step. *)
TypeOK ==
  /\ issued \in 0..MaxWrites
  /\ keyOf \in [Write -> Keys \union {NoKey}]
  /\ step \in [Write -> Step]
  /\ previous \in [Write -> 0..MaxWrites]
  /\ chain \in [Keys -> 0..MaxWrites]
  /\ temp \in [Write -> {"absent", "partial", "whole"}]
  /\ file \in [Keys -> [write : 0..MaxWrites, whole : BOOLEAN]]
  /\ \A w \in Write : step[w] = "unused" <=> w > issued

(* A fresh installation: no save, nothing queued. *)
Init ==
  /\ issued = 0
  /\ keyOf = [w \in Write |-> NoKey]
  /\ step = [w \in Write |-> "unused"]
  /\ previous = [w \in Write |-> NoWrite]
  /\ chain = [k \in Keys |-> NoWrite]
  /\ temp = [w \in Write |-> "absent"]
  /\ file = [k \in Keys |-> [write |-> NoWrite, whole |-> TRUE]]
-----------------------------------------------------------------------------
(* write(key, bytes): the call joins the chain of its key.  The promise it *)
(* waits for is the newest one of the map, or none.                        *)
Call(k) ==
  LET w == issued + 1 IN
    /\ issued < MaxWrites
    /\ issued' = w
    /\ keyOf' = [keyOf EXCEPT ![w] = k]
    /\ step' = [step EXCEPT ![w] = "queued"]
    /\ previous' = [previous EXCEPT ![w] = chain[k]]
    /\ chain' = [chain EXCEPT ![k] = w]
    /\ UNCHANGED <<temp, file>>

(* Mutant: the chain is built but not awaited. *)
MayStartAtOnce(w) == step[w] = "queued"

(* Mutant: only a fulfilled promise lets the next call start. *)
MayStartAfterSuccess(w) ==
  /\ step[w] = "queued"
  /\ previous[w] # NoWrite => step[previous[w]] = "ok"

(* previous.catch(() => undefined).then(...): a call may start once the    *)
(* promise before it has settled, however it settled.                      *)
MayStart(w) ==
  /\ step[w] = "queued"
  /\ previous[w] # NoWrite => step[previous[w]] \in Settled

(* Mutant: the promise before it is not caught, and its rejection is the   *)
(* call's.                                                                 *)
StartUncaught(w) ==
  /\ MayStart(w)
  /\ step' = [step EXCEPT ![w] = IF previous[w] # NoWrite /\ step[previous[w]] = "failed"
                                 THEN "failed" ELSE "mkdir"]
  /\ UNCHANGED <<issued, keyOf, previous, chain, temp, file>>

Start(w) ==
  /\ MayStart(w)
  /\ step' = [step EXCEPT ![w] = "mkdir"]
  /\ UNCHANGED <<issued, keyOf, previous, chain, temp, file>>

(* mkdir is outside the try block: its failure rejects the call at once. *)
MakeDirectory(w) ==
  /\ step[w] = "mkdir"
  /\ \/ /\ step' = [step EXCEPT ![w] = "writeFile"]
        /\ temp' = [temp EXCEPT ![w] = "partial"]
     \/ /\ step' = [step EXCEPT ![w] = "failed"]
        /\ UNCHANGED temp
  /\ UNCHANGED <<issued, keyOf, previous, chain, file>>

(* Mutant: the error of writeFile is swallowed before the rename. *)
WriteTemporaryUnchecked(w) ==
  /\ step[w] = "writeFile"
  /\ step' = [step EXCEPT ![w] = "rename"]
  /\ \/ temp' = [temp EXCEPT ![w] = "whole"]
     \/ UNCHANGED temp
  /\ UNCHANGED <<issued, keyOf, previous, chain, file>>

(* writeFile(temporary): the temporary file is complete, or the write      *)
(* fails part of the way.                                                  *)
WriteTemporary(w) ==
  /\ step[w] = "writeFile"
  /\ \/ /\ step' = [step EXCEPT ![w] = "rename"]
        /\ temp' = [temp EXCEPT ![w] = "whole"]
     \/ /\ step' = [step EXCEPT ![w] = "unlink"]
        /\ UNCHANGED temp
  /\ UNCHANGED <<issued, keyOf, previous, chain, file>>

(* rename(temporary, path): the file system replaces the save in one step, *)
(* or refuses.                                                             *)
Rename(w) ==
  /\ step[w] = "rename"
  /\ \/ /\ step' = [step EXCEPT ![w] = "renamed"]
        /\ temp' = [temp EXCEPT ![w] = "absent"]
        /\ file' = [file EXCEPT ![keyOf[w]] =
                      [write |-> w, whole |-> temp[w] = "whole"]]
     \/ /\ step' = [step EXCEPT ![w] = "unlink"]
        /\ UNCHANGED <<temp, file>>
  /\ UNCHANGED <<issued, keyOf, previous, chain>>

(* The result of the rename reaches the process: the call is fulfilled. *)
Fulfil(w) ==
  /\ step[w] = "renamed"
  /\ step' = [step EXCEPT ![w] = "ok"]
  /\ UNCHANGED <<issued, keyOf, previous, chain, temp, file>>

(* The catch block: the temporary file is removed if that succeeds, and    *)
(* the call is rejected with the error of the write.                       *)
RemoveTemporary(w) ==
  /\ step[w] = "unlink"
  /\ step' = [step EXCEPT ![w] = "failed"]
  /\ \/ temp' = [temp EXCEPT ![w] = "absent"]
     \/ UNCHANGED temp
  /\ UNCHANGED <<issued, keyOf, previous, chain, file>>

(* cleanup: a settled promise leaves the map unless a newer one took its   *)
(* place.  It runs in a microtask of its own, after the promise settled.   *)
Cleanup(w) ==
  /\ step[w] \in {"ok", "failed"}
  /\ chain[keyOf[w]] = w
  /\ chain' = [chain EXCEPT ![keyOf[w]] = NoWrite]
  /\ UNCHANGED <<issued, keyOf, step, previous, temp, file>>

(* The process ends and is started again: the files stay as they are, the  *)
(* chains and the calls in flight are gone.                                *)
Crash ==
  /\ step' = [w \in Write |-> IF step[w] \in Begun \union {"queued"}
                              THEN "lost" ELSE step[w]]
  /\ chain' = [k \in Keys |-> NoWrite]
  /\ UNCHANGED <<issued, keyOf, previous, temp, file>>

Progress(w) ==
  \/ Start(w)
  \/ MakeDirectory(w)
  \/ WriteTemporary(w)
  \/ Rename(w)
  \/ Fulfil(w)
  \/ RemoveTemporary(w)
  \/ Cleanup(w)

Next ==
  \/ \E k \in Keys : Call(k)
  \/ \E w \in Write : Progress(w)
  \/ Crash

Spec == Init /\ [][Next]_vars
-----------------------------------------------------------------------------
(* Properties.                                                             *)

(* At any time at most one call of a key is between its mkdir and its last *)
(* file-system operation, and it is the oldest one that has not settled.   *)
(* This is what the per-key promise chain of `write` is for.               *)
OneWriterPerKey ==
  \A v, w \in Write :
    /\ v < w
    /\ step[v] \in Begun \union {"queued"}
    /\ keyOf[v] = keyOf[w]
    => step[w] \in {"unused", "queued"}

(* A call whose promise was fulfilled stays on disk, or was replaced by a  *)
(* newer call of the same key, through any later failure or crash.         *)
AcknowledgedIsDurable ==
  \A w \in Write : step[w] = "ok" => file[keyOf[w]].write >= w

(* A delayed periodic flush cannot replace a newer final flush: the save   *)
(* of a key never goes back to the bytes of an earlier call.               *)
SaveNeverGoesBack ==
  [][\A k \in Keys : file'[k].write >= file[k].write]_vars

(* The failure of one call does not fail the calls behind it (the `.catch` *)
(* in front of the `.then`): a call is rejected only in an operation of    *)
(* its own, after every earlier call of its key has settled, and leaves    *)
(* the save that one of those wrote, or found, as it is.                   *)
FailureIsOwn ==
  [][\A w \in Write : step'[w] = "failed" /\ step[w] # "failed"
       => /\ step[w] \in Begun
          /\ \A v \in Write : v < w /\ keyOf[v] = keyOf[w] => step[v] \in Settled
          /\ file' = file /\ file[keyOf[w]].write < w]_vars

(* The store implements the promises of AtomicSaves: the save of a key is  *)
(* replaced atomically, in the order of the calls.  A file that holds part *)
(* of a save would map to no state of the abstract store.                  *)
OutcomeOf(w) ==
  IF step[w] \in {"unused"} \union Settled THEN step[w] ELSE "pending"

SavedOf(k) == IF file[k].whole THEN file[k].write ELSE MaxWrites + 1

Atomic == INSTANCE AtomicSaves
            WITH outcome <- [w \in Write |-> OutcomeOf(w)],
                 saved   <- [k \in Keys |-> SavedOf(k)]

ImplementsAtomicSaves == Atomic!Spec
=============================================================================
