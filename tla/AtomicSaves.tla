----------------------------- MODULE AtomicSaves -----------------------------
(***************************************************************************)
(* What the cartridge save store promises its caller, the session host.    *)
(* Calls of `write` are numbered in the order they were made; a number     *)
(* stands for the bytes the call carries.  The save of a key only ever     *)
(* moves to the bytes of a later call, in one step; a call is acknowledged *)
(* only when those bytes, or newer ones, are the save; a call that failed  *)
(* left the save as it was.  A crash of the process loses the calls that   *)
(* were not acknowledged and nothing else.                                 *)
(***************************************************************************)
EXTENDS Naturals

CONSTANTS Keys,        \* the ROM identities saves are stored under
          NoKey,       \* the key of a call that was not made
          MaxWrites    \* bound: calls of `write` in a behaviour

NoWrite == 0
Write   == 1..MaxWrites

VARIABLES issued,   \* how many calls were made
          keyOf,    \* the key of each call
          outcome,  \* what the caller knows of each call
          saved     \* the call whose bytes are the save of each key

vars == <<issued, keyOf, outcome, saved>>

Outcome == {"unused", "pending", "ok", "failed", "lost"}

TypeOK ==
  /\ issued \in 0..MaxWrites
  /\ keyOf \in [Write -> Keys \union {NoKey}]
  /\ outcome \in [Write -> Outcome]
  /\ saved \in [Keys -> 0..MaxWrites]

Init ==
  /\ issued = 0
  /\ keyOf = [w \in Write |-> NoKey]
  /\ outcome = [w \in Write |-> "unused"]
  /\ saved = [k \in Keys |-> NoWrite]

(* A call of `write` for key k. *)
Accept(k) ==
  /\ issued < MaxWrites
  /\ issued' = issued + 1
  /\ keyOf' = [keyOf EXCEPT ![issued + 1] = k]
  /\ outcome' = [outcome EXCEPT ![issued + 1] = "pending"]
  /\ UNCHANGED saved

(* The bytes of call w replace the save of its key, all at once. *)
Commit(w) ==
  /\ outcome[w] = "pending"
  /\ saved[keyOf[w]] < w
  /\ saved' = [saved EXCEPT ![keyOf[w]] = w]
  /\ UNCHANGED <<issued, keyOf, outcome>>

(* The promise of call w is fulfilled. *)
Acknowledge(w) ==
  /\ outcome[w] = "pending"
  /\ saved[keyOf[w]] >= w
  /\ outcome' = [outcome EXCEPT ![w] = "ok"]
  /\ UNCHANGED <<issued, keyOf, saved>>

(* The promise of call w is rejected; its bytes never became the save. *)
Refuse(w) ==
  /\ outcome[w] = "pending"
  /\ saved[keyOf[w]] # w
  /\ outcome' = [outcome EXCEPT ![w] = "failed"]
  /\ UNCHANGED <<issued, keyOf, saved>>

(* The process ends: nobody is left to learn the outcome of a call. *)
Crash ==
  /\ outcome' = [w \in Write |-> IF outcome[w] = "pending" THEN "lost"
                                 ELSE outcome[w]]
  /\ UNCHANGED <<issued, keyOf, saved>>

Next ==
  \/ \E k \in Keys : Accept(k)
  \/ \E w \in Write : Commit(w) \/ Acknowledge(w) \/ Refuse(w)
  \/ Crash

Spec == Init /\ [][Next]_vars
=============================================================================
