------------------------------- MODULE SaveStates -------------------------------
(***************************************************************************)
(* Save states on disk: SaveStateRepository (packages/emulator) over       *)
(* BinaryFileStorage (apps/desktop).  A slot of a game is one file; writes *)
(* of a slot queue behind one another, the other operations do not.  The   *)
(* number of a write stands for the state it carries, in its envelope of   *)
(* core, format version and bytes.  Each await is a step.                  *)
(***************************************************************************)
EXTENDS Integers

CONSTANTS Requests,  \* the calls of a behaviour, numbered as they are made
          Slots      \* the slots of the game in question

NoState   == 0                    \* no file
Malformed == -1                   \* a file that is no envelope
Finished  == {"ok", "error", "rejected"}

(* NoState and Malformed are no calls. *)
RequestsAssumption == Requests \subseteq Nat \ {0}

VARIABLES operation, \* what each call is, and its slot
          progress,  \* the await it is at, or how it settled
          before,    \* the write it is chained to
          pending,   \* #writes: the newest write of each slot
          entry,     \* the file of each slot
          answer,    \* what a read found, or the slots a list found
          durable    \* history: the file of each slot when the call was made

stateVars == <<operation, progress, before, pending, entry, answer, durable>>

NoOperation == [kind |-> "none", slot |-> "none"]

StatesInit ==
  /\ operation = [c \in Requests |-> NoOperation]
  /\ progress = [c \in Requests |-> "idle"]
  /\ before = [c \in Requests |-> NoState]
  /\ pending = [s \in Slots |-> NoState]
  /\ entry \in [Slots -> {NoState, Malformed}]
  /\ answer = [c \in Requests |-> {}]
  /\ durable = [c \in Requests |-> entry]

Reach(c, stage) == progress' = [progress EXCEPT ![c] = stage]

(* A call is made, with the keys and the envelope it is refused for        *)
(* already looked at: games and slots have valid names here.               *)
Ask(c, o, stage) ==
  /\ progress[c] = "idle"
  /\ \A d \in Requests : d < c => progress[d] # "idle"
  /\ operation' = [operation EXCEPT ![c] = o]
  /\ durable' = [durable EXCEPT ![c] = entry]
  /\ Reach(c, stage)

Slot(c) == operation[c].slot

(* Mutant: the writes of a slot do not wait for one another. *)
MayBegin(c) == progress[c] = "queued"

(* write: an envelope above 16 MiB is refused; any other joins the queue   *)
(* of its slot.                                                            *)
WriteState(c, s) ==
  \/ /\ Ask(c, [kind |-> "write", slot |-> s], "queued")
     /\ before' = [before EXCEPT ![c] = pending[s]]
     /\ pending' = [pending EXCEPT ![s] = c]
     /\ UNCHANGED <<entry, answer>>
  \/ /\ Ask(c, [kind |-> "write", slot |-> s], "error")
     /\ UNCHANGED <<before, pending, entry, answer>>

CanStart(c) ==
  /\ progress[c] = "queued"
  /\ before[c] # NoState => progress[before[c]] \in Finished

(* previous.then(writeAtomic): without a catch, so that a write behind one *)
(* that was rejected is rejected unbegun.                                  *)
StartWrite(c) ==
  /\ CanStart(c)
  /\ Reach(c, IF before[c] # NoState /\ progress[before[c]] = "rejected"
              THEN "rejected" ELSE "mkdir")
  /\ UNCHANGED <<operation, before, pending, entry, answer, durable>>

(* mkdir is in front of the try block. *)
MakeStateDirectory(c) ==
  /\ progress[c] = "mkdir"
  /\ Reach(c, "writeFile") \/ Reach(c, "rejected")
  /\ UNCHANGED <<operation, before, pending, entry, answer, durable>>

(* writeFile to a temporary file of this call's own, which is removed if   *)
(* that can be done, and whose name no list shows.                         *)
WriteStateFile(c) ==
  /\ progress[c] = "writeFile"
  /\ Reach(c, "rename") \/ Reach(c, "error")
  /\ UNCHANGED <<operation, before, pending, entry, answer, durable>>

RenameState(c) ==
  /\ progress[c] = "rename"
  /\ \/ Reach(c, "ok") /\ entry' = [entry EXCEPT ![Slot(c)] = c]
     \/ Reach(c, "error") /\ UNCHANGED entry
  /\ UNCHANGED <<operation, before, pending, answer, durable>>

(* finally: the queue forgets a write that nothing is chained to. *)
Forget(c) ==
  /\ progress[c] \in Finished /\ operation[c].kind = "write"
  /\ pending[Slot(c)] = c
  /\ pending' = [pending EXCEPT ![Slot(c)] = NoState]
  /\ UNCHANGED <<operation, progress, before, entry, answer, durable>>

(* read, remove and list begin at once, whatever is queued. *)
AskOther(c, o, stage) ==
  Ask(c, o, stage) /\ UNCHANGED <<before, pending, entry, answer>>

ReadState(c, s)   == AskOther(c, [kind |-> "read", slot |-> s], "reading")
RemoveState(c, s) == AskOther(c, [kind |-> "remove", slot |-> s], "unlink")
ListStates(c)     == AskOther(c, [kind |-> "list", slot |-> "all"], "readdir")

(* readFile and decode: no file is no state, and a file that is no         *)
(* envelope is an error, as is one that cannot be read.                    *)
ReadAnswered(c) ==
  /\ progress[c] = "reading"
  /\ \/ /\ entry[Slot(c)] # Malformed
        /\ Reach(c, "ok")
        /\ answer' = [answer EXCEPT ![c] = {entry[Slot(c)]} \ {NoState}]
     \/ Reach(c, "error") /\ UNCHANGED answer
  /\ UNCHANGED <<operation, before, pending, entry, durable>>

RemoveAnswered(c) ==
  /\ progress[c] = "unlink"
  /\ \/ Reach(c, "ok") /\ entry' = [entry EXCEPT ![Slot(c)] = NoState]
     \/ Reach(c, "error") /\ UNCHANGED entry
  /\ UNCHANGED <<operation, before, pending, answer, durable>>

(* list: the names first, then the size and time of each; a file that is   *)
(* gone by then fails the list.                                            *)
NamesListed(c) ==
  /\ progress[c] = "readdir"
  /\ \/ /\ Reach(c, "stat")
        /\ answer' = [answer EXCEPT ![c] = {s \in Slots : entry[s] # NoState}]
     \/ Reach(c, "error") /\ UNCHANGED answer
  /\ UNCHANGED <<operation, before, pending, entry, durable>>

EntriesListed(c) ==
  /\ progress[c] = "stat"
  /\ \/ Reach(c, "ok") /\ \A s \in answer[c] : entry[s] # NoState
     \/ Reach(c, "error")
  /\ UNCHANGED <<operation, before, pending, entry, answer, durable>>

StateStep(c) ==
  \/ StartWrite(c) \/ MakeStateDirectory(c) \/ WriteStateFile(c)
  \/ RenameState(c) \/ Forget(c)
  \/ ReadAnswered(c) \/ RemoveAnswered(c)
  \/ NamesListed(c) \/ EntriesListed(c)

StatesNext ==
  \E c \in Requests :
    \/ \E s \in Slots : WriteState(c, s) \/ ReadState(c, s) \/ RemoveState(c, s)
    \/ ListStates(c)
    \/ StateStep(c)

StatesSpec == StatesInit /\ [][StatesNext]_stateVars
-----------------------------------------------------------------------------
(* What a slot shows never goes back: once a write of a slot is            *)
(* acknowledged, a read that begins later answers that state or a newer    *)
(* one, unless the slot was removed.  Periodic autosaves, the one at stop  *)
(* and manual captures overlap, and only the queue orders them.            *)
StatesNeverGoBack ==
  \A c \in Requests :
    operation[c].kind = "read" /\ progress[c] = "ok" =>
      \/ \E a \in answer[c] : a >= durable[c][Slot(c)]
      \/ durable[c][Slot(c)] \in {NoState, Malformed} /\ answer[c] = {}
      \/ \E r \in Requests : operation[r] = [kind |-> "remove", slot |-> Slot(c)]
=============================================================================
